---- MODULE Spec2Model ----
(***************************************************************************)
(* Verification model of the Slack browser-automation extractor            *)
(* (src/growthkit/connectors/slack/slack_fetcher.py).                      *)
(*                                                                         *)
(* The module holds several specifications over one set of variables:      *)
(*   SpecFetch      fetch_conversation_history as a function of its inputs *)
(*   SpecExport     export runs (batch targets and the single-target flow) *)
(*   SpecIntercept  the route handler _intercept_api_call                  *)
(*   SpecLogin      ensure_logged_in                                       *)
(*   SpecUsers      get_user_list                                          *)
(* Every specification leaves the variables of the others unchanged.       *)
(***************************************************************************)
EXTENDS Integers, Sequences, FiniteSets, TLC

VARIABLES
    fetch_in,          \* SpecFetch: the inputs of one fetch_conversation_history call
    fetch_out,         \* SpecFetch: what the call returned
    upstream,          \* SpecExport: the workspace's messages, per conversation
    tracker,           \* SpecExport: TRACK_FILE, conversation id -> highest exported ts
    md_files,          \* SpecExport: the markdown file of each conversation
    last_run,          \* SpecExport: what the latest export run did
    runs,              \* SpecExport: number of export runs so far
    clock,             \* SpecExport: the newest ts the workspace has handed out
    exported_from,     \* SpecExport: per conversation, its upstream state at its latest run
    route,             \* SpecIntercept: the latest routed request and how it ended
    credentials,       \* SpecIntercept: SlackCredentials
    intercepted_data,  \* SpecIntercept: SlackBrowser.intercepted_data
    login,             \* SpecLogin: the session that ensure_logged_in looks at, and its result
    user_in,           \* SpecUsers: bootstrap payload, users.list pages and rolodex
    user_out,          \* SpecUsers: what get_user_list returned
    channel_map_file,  \* SpecChannelMap: the entries of CHANNEL_MAP_FILE
    channel_save,      \* SpecChannelMap: the latest resolution run and what it wrote
    cred_in,           \* SpecCreds: a credential record and the time
    cred_out,          \* SpecCreds: what was asked of the record and the answer
    disk,              \* SpecFiles: the export directory, file name -> blocks written
    disk_run,          \* SpecFiles: the conversation exported and the runs so far
    resolve,           \* SpecResolve: a target typed by the operator and how it was resolved
    config,            \* SpecConfig: the workspace config file and what the entry point did
    wait,              \* SpecWait: position and clock of _wait_for_manual_login
    scroll,            \* the fallback scroll loop of fetch_conversation_history
    scan,              \* SpecScan: one get_conversations call over the buffered listings
    sched              \* SpecLoop: the event loop, the worker thread and the credential store

vars == <<fetch_in, fetch_out, upstream, tracker, md_files, last_run, runs,
          clock, exported_from, route, credentials, intercepted_data, login, user_in, user_out,
          channel_map_file, channel_save,
          cred_in, cred_out,
          disk, disk_run,
          resolve,
          config,
          wait,
          scroll,
          scan,
          sched>>

-----------------------------------------------------------------------------
(* Bounds of the model *)

\* message timestamps take the values 1..MaxTs
MaxTs == 2
\* messages per conversations.history page (the code asks for limit=1000)
PageLimit == 1
\* messages listed by one payload that the browser's own traffic left in the buffer
MaxPayload == 2
\* export runs in one behaviour
MaxRuns == 2
\* requests routed through the interceptor in one behaviour
MaxCalls == 2
\* calls already in the buffer when the login check runs
MaxBuffered == 2
\* channel-resolution runs in one behaviour
MaxSaves == 2
\* runs of one conversation followed in SpecFiles
MaxWrites == 3
\* history messages of one conversation that the scroll loop can load
MaxLoaded == 2
\* well-formed entries of the buffered conversation listings
MaxEntries == 2
\* routed requests waiting for their handler
MaxPending == 2
Convs == {"C1", "C2"}

-----------------------------------------------------------------------------
(* Messages.  A ts is the pair <<value, form>>: `value` is what float(ts)   *)
(* yields, `form` tells two spellings of the same number apart ("100.1"    *)
(* and "100.10", or the JSON number 100.1 and the JSON string "100.1").    *)
(* The code keys its de-duplication on the raw ts and its ordering on      *)
(* float(ts).                                                              *)

TsVals == 1..MaxTs
TsTokens == TsVals \X {0, 1}
Canon(v) == <<v, 0>>

Float(ts) == ts[1]

Msg(ts, rc, ch) == [ts |-> ts, reply_count |-> rc, ch |-> ch]

RECURSIVE AscList(_)
AscList(S) ==
    LET
        \* total order on ts tokens, used only to write a set of messages down as a list
        TsBefore(a, b) == a[1] < b[1] \/ (a[1] = b[1] /\ a[2] < b[2])
    IN
    IF S = {} THEN <<>>
    ELSE LET m == CHOOSE x \in S : \A y \in S \ {x} : TsBefore(x.ts, y.ts)
         IN  <<m>> \o AscList(S \ {m})

RECURSIVE Reverse(_)
Reverse(s) == IF s = <<>> THEN <<>> ELSE Append(Reverse(Tail(s)), Head(s))

\* the newest-first order in which conversations.history lists messages
DescList(S) == Reverse(AscList(S))

RECURSIVE Concat(_)
Concat(ss) == IF ss = <<>> THEN <<>> ELSE Head(ss) \o Concat(Tail(ss))

\* the filter with ">=" in place of ">"
RECURSIVE SelectMsgsInclusive(_, _)
SelectMsgsInclusive(s, oldest) ==
    IF s = <<>> THEN <<>>
    ELSE IF Float(Head(s).ts) >= oldest
         THEN <<Head(s)>> \o SelectMsgsInclusive(Tail(s), oldest)
         ELSE SelectMsgsInclusive(Tail(s), oldest)

\* [msg for msg in messages if float(msg.get("ts", "0")) > oldest_ts]
RECURSIVE SelectMsgs(_, _)
SelectMsgs(s, oldest) ==
    IF s = <<>> THEN <<>>
    ELSE IF Float(Head(s).ts) > oldest
         THEN <<Head(s)>> \o SelectMsgs(Tail(s), oldest)
         ELSE SelectMsgs(Tail(s), oldest)

MaxOf(S) == CHOOSE x \in S : \A y \in S : y <= x

-----------------------------------------------------------------------------
(* list.sort(key=lambda m: float(m["ts"])): a stable sort on float(ts)      *)

RECURSIVE InsertByTs(_, _)
InsertByTs(s, m) ==
    IF s = <<>> THEN <<m>>
    ELSE IF Float(s[Len(s)].ts) <= Float(m.ts)
         THEN Append(s, m)
         ELSE Append(InsertByTs(SubSeq(s, 1, Len(s) - 1), m), s[Len(s)])

RECURSIVE SortAcc(_, _)
SortAcc(acc, s) ==
    IF s = <<>> THEN acc ELSE SortAcc(InsertByTs(acc, Head(s)), Tail(s))

\* messages.sort(key=lambda m: float(m.get("ts", 0)))
SortByTs(s) == SortAcc(<<>>, s)

-----------------------------------------------------------------------------
(* De-duplication                                                          *)

RECURSIVE DictKeys(_, _)
DictKeys(s, seen) ==
    IF s = <<>> THEN <<>>
    ELSE IF Head(s).ts \in seen
         THEN DictKeys(Tail(s), seen)
         ELSE <<Head(s).ts>> \o DictKeys(Tail(s), seen \cup {Head(s).ts})

DedupDict(s) ==
    LET
        \* primary path: {m.get("ts"): m for m in combined if m.get("ts")} -- one entry per
        \* raw ts, in order of first occurrence, holding the last message with that ts
        LastWith(msgs, ts) ==
            msgs[MaxOf({i \in 1..Len(msgs) : msgs[i].ts = ts})]
    IN
    LET keys == DictKeys(s, {})
    IN  [i \in 1..Len(keys) |-> LastWith(s, keys[i])]

\* fallback path: seen_ts set, the first message with each raw ts is kept
RECURSIVE DedupSeen(_, _)
DedupSeen(s, seen) ==
    IF s = <<>> THEN <<>>
    ELSE IF Head(s).ts \in seen
         THEN DedupSeen(Tail(s), seen)
         ELSE <<Head(s)>> \o DedupSeen(Tail(s), seen \cup {Head(s).ts})

-----------------------------------------------------------------------------
(* The workspace as the direct Web API shows it.  One conversation holds    *)
(* top-level messages `top`, and at most one thread: the replies `replies` *)
(* to the top-level message `parent` (0: no thread).  A reply that is also *)
(* in `top` was broadcast to the channel, so history and replies both list *)
(* it.  Slack writes every ts in one spelling and a reply is newer than    *)
(* its parent.                                                             *)

Conv(top, parent, replies) == [top |-> top, parent |-> parent, replies |-> replies]
EmptyConv == Conv({}, 0, {})

ReplyCount(u, v) == IF v = u.parent THEN Cardinality(u.replies) ELSE 0

\* conversations.history answers newest first, bounded below by the request's oldest
ServerHistory(u, req) ==
    DescList({Msg(Canon(v), ReplyCount(u, v), req.channel) :
                v \in {w \in u.top : IF req.inclusive THEN w >= req.oldest
                                                     ELSE w > req.oldest}})

\* conversations.replies answers the parent followed by its replies, oldest first
ServerReplies(u, channel_id, ts) ==
    IF Float(ts) = u.parent /\ u.parent # 0
    THEN <<Msg(Canon(u.parent), ReplyCount(u, u.parent), channel_id)>>
         \o AscList({Msg(Canon(r), 0, channel_id) : r \in u.replies})
    ELSE <<>>

NumPages(all) == IF Len(all) = 0 THEN 1 ELSE (Len(all) + PageLimit - 1) \div PageLimit

PageOf(all, i) ==
    SubSeq(all, (i - 1) * PageLimit + 1,
           IF i * PageLimit < Len(all) THEN i * PageLimit ELSE Len(all))

-----------------------------------------------------------------------------
(* _fetch_history_via_api_sync: cursor pagination of conversations.history. *)
(* env.failPage = k > 0 makes the k-th request fail: "http_error"          *)
(* (raise_for_status raises) or "not_ok" (the payload has ok: false, the    *)
(* loop breaks and keeps what it has).                                     *)

RECURSIVE HistoryPages(_, _, _, _)
HistoryPages(all, i, acc, env) ==
    IF env.failPage = i
    THEN IF env.failKind = "http_error"
         THEN [raised |-> TRUE, msgs |-> <<>>]
         ELSE [raised |-> FALSE, msgs |-> acc]
    ELSE IF i >= NumPages(all)
         THEN [raised |-> FALSE, msgs |-> acc \o PageOf(all, i)]
         ELSE HistoryPages(all, i + 1, acc \o PageOf(all, i), env)

fetch_history_via_api_sync(channel_id, oldest_ts, env) ==
    LET
        \* the request of _fetch_history_via_api_sync: "oldest": oldest_ts, "inclusive": False
        HistoryRequest(channel, oldest) ==
            [channel |-> channel, oldest |-> oldest, inclusive |-> FALSE]
    IN
    IF ~env.has_creds
    THEN [raised |-> FALSE, msgs |-> <<>>]
    ELSE LET r == HistoryPages(ServerHistory(env.up, HistoryRequest(channel_id, oldest_ts)),
                               1, <<>>, env)
         IN  [raised |-> r.raised, msgs |-> SortByTs(r.msgs)]

\* the replies merged for every parent of api_msgs: reply_data["messages"][1:]
RECURSIVE ThreadedMsgs(_, _, _)
ThreadedMsgs(api_msgs, channel_id, env) ==
    IF api_msgs = <<>> THEN <<>>
    ELSE LET parent == Head(api_msgs)
             reply_data == IF env.replies_fail THEN <<>>
                           ELSE ServerReplies(env.up, channel_id, parent.ts)
             mine == IF parent.reply_count > 0 /\ reply_data # <<>>
                     THEN Tail(reply_data) ELSE <<>>
         IN  mine \o ThreadedMsgs(Tail(api_msgs), channel_id, env)

-----------------------------------------------------------------------------
(* The UI-scroll fallback harvests the intercepted-call buffer.  A buffered *)
(* call is [url, ok, messages]; for the info-like endpoints `messages`     *)
(* holds the payload's single "message", if any.                           *)

Call(url, ok, messages) == [url |-> url, ok |-> ok, messages |-> messages]

HarvestCall(data, oldest_ts) ==
    LET
        InfoLike == {"conversations.info", "conversations.members", "files.info", "reactions.get"}
    IN
    IF data.url = "conversations.history"
    THEN IF data.ok THEN SelectMsgs(data.messages, oldest_ts) ELSE <<>>
    ELSE IF data.url = "conversations.replies"
    THEN IF data.ok /\ data.messages # <<>>
         THEN SelectMsgs(Tail(data.messages), oldest_ts) ELSE <<>>
    ELSE IF data.url \in InfoLike
    THEN IF data.ok /\ data.messages # <<>>
         THEN SelectMsgs(<<Head(data.messages)>>, oldest_ts) ELSE <<>>
    ELSE <<>>

RECURSIVE HarvestAll(_, _)
HarvestAll(buffer, oldest_ts) ==
    IF buffer = <<>> THEN <<>>
    ELSE HarvestCall(Head(buffer), oldest_ts) \o HarvestAll(Tail(buffer), oldest_ts)

ui_scroll_fallback(channel_id, oldest_ts, env) ==
    IF ~env.has_page THEN [msgs |-> <<>>, path |-> "no_page"]
    ELSE IF ~env.nav_ok THEN [msgs |-> <<>>, path |-> "nav_failed"]
    ELSE [msgs |-> SortByTs(DedupSeen(HarvestAll(env.buffer, oldest_ts), {})),
          path |-> "ui"]

-----------------------------------------------------------------------------
(* fetch_conversation_history                                              *)

\* the short-circuit taken whatever the watermark is
fetch_conversation_history_any_watermark(channel_id, oldest_ts, env) ==
    IF env.has_creds
    THEN LET api == fetch_history_via_api_sync(channel_id, oldest_ts, env)
         IN  IF api.raised
             THEN ui_scroll_fallback(channel_id, oldest_ts, env)
             ELSE IF api.msgs # <<>>
             THEN [msgs |-> SortByTs(DedupDict(api.msgs
                                      \o ThreadedMsgs(api.msgs, channel_id, env))),
                   path |-> "api"]
             ELSE IF env.info_ok
             THEN [msgs |-> <<>>, path |-> "api_empty"]
             ELSE ui_scroll_fallback(channel_id, oldest_ts, env)
    ELSE ui_scroll_fallback(channel_id, oldest_ts, env)

\* SlackBrowser.fetch_conversation_history; a path of "no_page" or "nav_failed" is the
\* fallback entered and given up at once
fetch_conversation_history(channel_id, oldest_ts, env) ==
    IF env.has_creds
    THEN LET api == fetch_history_via_api_sync(channel_id, oldest_ts, env)
         IN  IF api.raised
             THEN ui_scroll_fallback(channel_id, oldest_ts, env)
             ELSE IF api.msgs # <<>>
             THEN [msgs |-> SortByTs(DedupDict(api.msgs
                                      \o ThreadedMsgs(api.msgs, channel_id, env))),
                   path |-> "api"]
             ELSE IF oldest_ts = 0 /\ env.info_ok
             THEN [msgs |-> <<>>, path |-> "api_empty"]
             ELSE ui_scroll_fallback(channel_id, oldest_ts, env)
    ELSE ui_scroll_fallback(channel_id, oldest_ts, env)

-----------------------------------------------------------------------------
(* The variables belong to groups, one per specification.  While the     *)
(* specification of group g runs, the variables of every other group keep *)
(* the values of an object on which that operation was never invoked.     *)

RestIdle(g) ==
    /\ g = "fetch" \/ (fetch_in = [channel |-> "none"]
                       /\ fetch_out = [done |-> FALSE])
    /\ g = "export" \/ (upstream = <<>> /\ tracker = <<>> /\ md_files = <<>>
                        /\ last_run = <<>> /\ runs = 0 /\ clock = 0
                        /\ exported_from = <<>>)
    /\ g = "intercept" \/ (route = [phase |-> "none"] /\ credentials = <<>>
                           /\ intercepted_data = <<>>)
    /\ g = "login" \/ login = [phase |-> "none"]
    /\ g = "user" \/ (user_in = [phase |-> "none"]
                      /\ user_out = [done |-> FALSE])
    /\ g = "chan" \/ (channel_map_file = <<>> /\ channel_save = [n |-> 0])
    /\ g = "cred" \/ (cred_in = <<>> /\ cred_out = [op |-> "none"])
    /\ g = "disk" \/ (disk = <<>> /\ disk_run = [n |-> 0])
    /\ g = "resolve" \/ resolve = [flow |-> "none"]
    /\ g = "config" \/ config = [phase |-> "none"]
    /\ g = "wait" \/ wait = [pc |-> "none"]
    /\ g = "scroll" \/ scroll = [pc |-> "none"]
    /\ g = "scan" \/ scan = [phase |-> "none"]
    /\ g = "sched" \/ sched = [flow |-> "none"]

Frame(g) ==
    /\ IF g = "fetch" THEN TRUE ELSE UNCHANGED <<fetch_in, fetch_out>>
    /\ IF g = "export" THEN TRUE
       ELSE UNCHANGED <<upstream, tracker, md_files, last_run, runs, clock, exported_from>>
    /\ IF g = "intercept" THEN TRUE
       ELSE UNCHANGED <<route, credentials, intercepted_data>>
    /\ IF g = "login" THEN TRUE ELSE UNCHANGED <<login>>
    /\ IF g = "user" THEN TRUE ELSE UNCHANGED <<user_in, user_out>>
    /\ IF g = "chan" THEN TRUE ELSE UNCHANGED <<channel_map_file, channel_save>>
    /\ IF g = "cred" THEN TRUE ELSE UNCHANGED <<cred_in, cred_out>>
    /\ IF g = "disk" THEN TRUE ELSE UNCHANGED <<disk, disk_run>>
    /\ IF g = "resolve" THEN TRUE ELSE UNCHANGED <<resolve>>
    /\ IF g = "config" THEN TRUE ELSE UNCHANGED <<config>>
    /\ IF g = "wait" THEN TRUE ELSE UNCHANGED <<wait>>
    /\ IF g = "scroll" THEN TRUE ELSE UNCHANGED <<scroll>>
    /\ IF g = "scan" THEN TRUE ELSE UNCHANGED <<scan>>
    /\ IF g = "sched" THEN TRUE ELSE UNCHANGED <<sched>>

-----------------------------------------------------------------------------
(* SpecFetch: fetch_conversation_history applied to bounded inputs          *)
(*                                                                         *)
(* fetch_in.env.buffer is the intercepted-call buffer as the harvest finds *)
(* it; its first fetch_in.start entries were recorded before the call      *)
(* began (the value line 1411 stores in _start_intercept_index, which no   *)
(* later line reads).                                                      *)
(* fetch_out.api is what the pagination helper _fetch_history_via_api_sync *)
(* gave the call: the messages it returned, or that it raised.             *)

Env(has_creds, up, failPage, failKind, replies_fail, info_ok, has_page, nav_ok, buffer) ==
    [has_creds |-> has_creds, up |-> up, failPage |-> failPage, failKind |-> failKind,
     replies_fail |-> replies_fail, info_ok |-> info_ok, has_page |-> has_page,
     nav_ok |-> nav_ok, buffer |-> buffer]

\* what one intercepted payload can list: a few messages, in any spelling
PayloadSets == {S \in SUBSET TsTokens : Cardinality(S) <= MaxPayload}

MsgsOf(S, ch) == {Msg(ts, 0, ch) : ts \in S}

HistoryCalls == {Call("conversations.history", TRUE, DescList(MsgsOf(S, "C1"))) : S \in PayloadSets}

\* the history payload the page loads when the UI shows the conversation
UiHistory(u, ch) ==
    Call("conversations.history", TRUE,
         DescList({Msg(Canon(v), ReplyCount(u, v), ch) : v \in u.top}))

FetchInit ==
    LET
        FallbackEnvs ==
            LET
                \* buffers of the fallback: a history payload, then possibly one more call
                FallbackBuffers ==
                    LET
                        OtherCalls ==
                            {Call("conversations.history", FALSE, <<>>),
                             Call("client.counts", TRUE, <<>>)}
                        InfoCalls ==
                            {Call("conversations.info", TRUE, <<Msg(ts, 0, "C1")>>) :
                                ts \in TsTokens}
                        RepliesCalls ==
                            {Call("conversations.replies", TRUE, AscList(MsgsOf(S, "C1"))) :
                                S \in PayloadSets}
                    IN
                    {<<h>> : h \in HistoryCalls}
                    \cup {<<h, c>> : h \in HistoryCalls,
                                      c \in HistoryCalls \cup RepliesCalls
                                               \cup InfoCalls \cup OtherCalls}
            IN
            {Env(FALSE, EmptyConv, 0, "not_ok", FALSE, FALSE, TRUE, TRUE, b) : b \in FallbackBuffers}
            \cup {Env(FALSE, EmptyConv, 0, "not_ok", FALSE, FALSE, hp, nv, <<h>>) :
                     hp \in BOOLEAN, nv \in BOOLEAN, h \in HistoryCalls}
        PrimaryEnvs ==
            LET
                WellFormedConv(u) ==
                    /\ u.parent = 0 => u.replies = {}
                    /\ u.parent # 0 => (u.parent \in u.top /\ u.replies # {})
                    /\ \A r \in u.replies : r > u.parent
                ConvStates ==
                    {Conv(t, p, r) : t \in SUBSET TsVals, p \in {0} \cup TsVals, r \in SUBSET TsVals}
            IN
            {Env(TRUE, u, fp, fk, rf, io, TRUE, TRUE, b) :
                u \in {x \in ConvStates : WellFormedConv(x)},
                fp \in 0..2, fk \in {"not_ok", "http_error"},
                rf \in BOOLEAN, io \in BOOLEAN, b \in {<<>>}}
    IN
    /\ \E e \in PrimaryEnvs \cup FallbackEnvs, w \in 0..MaxTs :
          LET env == IF e.has_creds
                     THEN [e EXCEPT !.buffer = <<UiHistory(e.up, "C1")>>]
                     ELSE e
          IN \E start \in 0..Len(env.buffer) :
                fetch_in = [channel |-> "C1", oldest_ts |-> w, env |-> env,
                            start |-> start]
    /\ fetch_out = [done |-> FALSE]
    /\ RestIdle("fetch")

FetchCall ==
    /\ ~fetch_out.done
    /\ LET r == fetch_conversation_history(fetch_in.channel, fetch_in.oldest_ts, fetch_in.env)
           api == fetch_history_via_api_sync(fetch_in.channel, fetch_in.oldest_ts, fetch_in.env)
       IN  fetch_out' = [done |-> TRUE, msgs |-> r.msgs, path |-> r.path, api |-> api]
    /\ UNCHANGED fetch_in /\ Frame("fetch")

FetchNext == FetchCall

SpecFetch == FetchInit /\ [][FetchNext]_vars

-----------------------------------------------------------------------------
(* SpecExport: export runs over a workspace that changes between them.      *)
(* tracker[c] = 0 stands for "no entry" (tracker.get(channel_id, 0)).      *)
(* md_files[c] is the markdown file of conversation c: whether it exists,  *)
(* how many header blocks it holds and the ts of its message lines.        *)

ExportInit ==
    LET
        NoFile == [exists |-> FALSE, headers |-> 0, lines |-> <<>>]
    IN
    /\ upstream = [c \in Convs |-> EmptyConv]
    /\ tracker = [c \in Convs |-> 0]
    /\ md_files = [c \in Convs |-> NoFile]
    /\ last_run = [entry |-> "none"]
    /\ runs = 0
    /\ clock = 0
    /\ exported_from = [c \in Convs |-> [ran |-> FALSE, up |-> EmptyConv]]
    /\ RestIdle("export")

(* the workspace *)

UpstreamPost(c) ==
    /\ clock < MaxTs
    /\ clock' = clock + 1
    /\ upstream' = [upstream EXCEPT ![c].top = @ \cup {clock + 1}]
    /\ UNCHANGED <<tracker, md_files, last_run, runs, exported_from>>
    /\ Frame("export")

UpstreamReply(c) ==
    /\ clock < MaxTs
    /\ upstream[c].top # {}
    /\ \E p \in upstream[c].top :
          /\ upstream[c].parent \in {0, p}
          /\ upstream' = [upstream EXCEPT ![c].parent = p,
                                         ![c].replies = @ \cup {clock + 1}]
    /\ clock' = clock + 1
    /\ UNCHANGED <<tracker, md_files, last_run, runs, exported_from>>
    /\ Frame("export")

\* the author of the newest message of a conversation deletes it
UpstreamDelete(c) ==
    /\ upstream[c].top # {}
    /\ LET v == MaxOf(upstream[c].top)
       IN  /\ v # upstream[c].parent
           /\ upstream' = [upstream EXCEPT ![c].top = @ \ {v}]
    /\ UNCHANGED <<tracker, md_files, last_run, runs, clock, exported_from>>
    /\ Frame("export")

(* what a run meets: credentials, API failures, and the payloads the page   *)
(* loads during the UI-scroll fallback                                      *)

RECURSIVE UiPages(_, _, _)
UiPages(all, i, n) ==
    IF i > n THEN <<>>
    ELSE <<Call("conversations.history", TRUE, PageOf(all, i))>> \o UiPages(all, i + 1, n)

UiAll(u, ch) == DescList({Msg(Canon(v), ReplyCount(u, v), ch) : v \in u.top})

ExportEnv(c, mode, b) ==
    Env(mode # "nocreds", upstream[c],
        IF mode = "partial" THEN 2 ELSE IF mode = "fail" THEN 1 ELSE 0,
        IF mode = "fail" THEN "http_error" ELSE "not_ok",
        FALSE, mode = "ok", TRUE, TRUE, b)

\* a run: what it meets and where its markdown write fails ("no": it completes)
ExportCases(c) ==
    LET
        \* the direct API as a run meets it: it answers every page ("ok"), it answers the
        \* first page and then ok: false ("partial"), or no token and cookies were
        \* captured ("nocreds"); a failing first request ("fail") ends like "nocreds"
        ApiModes == {"ok", "partial", "nocreds"}
        \* the buffer at harvest time: possibly another conversation's history loaded
        \* earlier in the session, then the pages of this conversation that scrolling
        \* reached (newest first), then the replies of its thread if it was opened
        UiBuffers(conv) ==
            LET
                UiReplies(u, ch) ==
                    IF u.parent = 0 THEN <<>>
                    ELSE <<Call("conversations.replies", TRUE, ServerReplies(u, ch, Canon(u.parent)))>>
            IN
            {pre \o UiPages(UiAll(upstream[conv], conv), 1, n) \o thr :
                pre \in {<<>>} \cup {<<UiHistory(upstream[d], d)>> : d \in Convs \ {conv}},
                n \in 1..NumPages(UiAll(upstream[conv], conv)),
                thr \in {<<>>, UiReplies(upstream[conv], conv)}}
    IN
    {[env |-> ExportEnv(c, mode, b), wf |-> "no"] : mode \in ApiModes, b \in UiBuffers(c)}
    \cup {[env |-> ExportEnv(c, "ok", <<>>), wf |-> wf] : wf \in {"open", "midway"}}

TsOf(msgs) == [i \in 1..Len(msgs) |-> msgs[i].ts]

\* the oldest ts in place of the newest
MinFloat(msgs) ==
    CHOOSE x \in {Float(msgs[i].ts) : i \in 1..Len(msgs)} :
        \A i \in 1..Len(msgs) : x <= Float(msgs[i].ts)

\* max(float(m["ts"]) for m in messages)
MaxFloat(msgs) == MaxOf({Float(msgs[i].ts) : i \in 1..Len(msgs)})

\* with md_path.open(mode): header block when the file is new, then one line per
\* message; `wf` is where the write fails ("no": it completes)
WriteMarkdown(file, messages, wf) ==
    IF wf = "open" THEN file
    ELSE [exists |-> TRUE,
          headers |-> IF file.exists THEN file.headers ELSE file.headers + 1,
          lines |-> file.lines \o (IF wf = "midway" THEN SubSeq(TsOf(messages), 1, 1)
                                                     ELSE TsOf(messages))]

Run(entry, c, oldest, r, messages, wf, trk) ==
    [entry |-> entry, conv |-> c, oldest |-> oldest, path |-> r.path,
     tracker_before |-> tracker, fetched |-> r.msgs, written |-> messages,
     write |-> IF messages = <<>> THEN "none" ELSE wf,
     tracker_written |-> trk,
     repeat |-> exported_from[c].ran /\ exported_from[c].up = upstream[c],
     lines_before |-> Len(md_files[c].lines)]

\* _export_single_channel for a target given by its id
ExportBatchTarget(c) ==
    /\ runs < MaxRuns
    /\ \E case \in ExportCases(c) :
         LET env == case.env
             wf == case.wf
             last_ts == tracker[c]
             r == fetch_conversation_history(c, last_ts, env)
             messages == SelectMsgs(r.msgs, last_ts)
             done == messages # <<>> /\ wf = "no"
         IN  /\ md_files' = IF messages = <<>> THEN md_files
                            ELSE [md_files EXCEPT ![c] = WriteMarkdown(@, messages, wf)]
             /\ tracker' = IF done THEN [tracker EXCEPT ![c] = MaxFloat(messages)]
                                   ELSE tracker
             /\ last_run' = Run("batch", c, last_ts, r, messages, wf, done)
    /\ runs' = runs + 1
    /\ exported_from' = [exported_from EXCEPT ![c] = [ran |-> TRUE, up |-> upstream[c]]]
    /\ UNCHANGED <<upstream, clock>>
    /\ Frame("export")

\* the single-target flow of main, for a target given by its id ("single_id") or
\* found by browsing the workspace ("single_browse")
ExportSingle(c) ==
    /\ runs < MaxRuns
    /\ \E case \in ExportCases(c), entry \in {"single_id", "single_browse"} :
         LET env == case.env
             wf == case.wf
             r == fetch_conversation_history(c, 0, env)
             messages == r.msgs
             done == messages # <<>> /\ wf = "no"
         IN  /\ md_files' = IF messages = <<>> THEN md_files
                            ELSE [md_files EXCEPT ![c] = WriteMarkdown(@, messages, wf)]
             /\ tracker' = IF done THEN [tracker EXCEPT ![c] = MaxFloat(messages)]
                                   ELSE tracker
             /\ last_run' = Run(entry, c, 0, r, messages, wf, done)
    /\ runs' = runs + 1
    /\ exported_from' = [exported_from EXCEPT ![c] = [ran |-> TRUE, up |-> upstream[c]]]
    /\ UNCHANGED <<upstream, clock>>
    /\ Frame("export")

ExportNext ==
    \/ \E c \in Convs : UpstreamPost(c)
    \/ \E c \in Convs : UpstreamReply(c)
    \/ \E c \in Convs : UpstreamDelete(c)
    \/ \E c \in Convs : ExportBatchTarget(c)
    \/ \E c \in Convs : ExportSingle(c)

SpecExport == ExportInit /\ [][ExportNext]_vars

-----------------------------------------------------------------------------
(* SpecIntercept: the route handler _intercept_api_call.                    *)
(*                                                                         *)
(* An exchange is a request, what the network and the browser do with it,  *)
(* and the body of its response:                                           *)
(*   method, post_token   POST body carrying a xox?- token                 *)
(*   cookie               the request's cookie header: "none", "b" (no     *)
(*                        token in it), "d_xox" (d cookie holding a token) *)
(*   fetch, fulfill, cont whether route.fetch / route.fulfill /            *)
(*                        route.continue_ work ("ok") or raise a           *)
(*                        Playwright error ("pw_error")                    *)
(*   set_cookie           the response's Set-Cookie: "none", "d_xox", or   *)
(*                        "junk" (SimpleCookie.load raises)                *)
(*   body                 "object": a JSON object; "object_ids": one with  *)
(*                        user_id and team_id; "falsy": null, 0, false,    *)
(*                        "", [] or {}; "scalar": a non-zero number or     *)
(*                        true; "list": a non-empty array; "string": a     *)
(*                        non-empty JSON string; "non_json": text that is  *)
(*                        no JSON; "undecodable": bytes that are no UTF-8; *)
(*                        "unreadable": response.text() raises a           *)
(*                        Playwright error                                 *)
(* credentials.token is "" or the token held; credentials.cookies is the   *)
(* set of cookie names held; last_updated is the time of the last touch.   *)

Exchange(method, post_token, cookie, fetch, set_cookie, body, fulfill, cont) ==
    [method |-> method, post_token |-> post_token, cookie |-> cookie, fetch |-> fetch,
     set_cookie |-> set_cookie, body |-> body, fulfill |-> fulfill, cont |-> cont]

\* SlackCredentials.update_from_request.  `resp` is the parsed response handed in:
\* "absent" or a body kind.  The result carries `raised`: the TypeError of
\* `"user_id" in response_data` on a value that is neither a container nor a string.
update_from_request(cr, x, resp, now) ==
    LET tok1 == IF x.method = "POST" /\ x.post_token THEN "xoxc" ELSE cr.token
        ck1 == IF x.cookie = "none" THEN cr.cookies
               ELSE IF x.cookie = "b" THEN cr.cookies \cup {"b"}
               ELSE cr.cookies \cup {"d"}
        tok2 == IF x.cookie = "d_xox" /\ tok1 = "" THEN "xoxd" ELSE tok1
        c2 == [cr EXCEPT !.token = tok2, !.cookies = ck1]
    IN  IF resp = "scalar"
        THEN [creds |-> c2, raised |-> TRUE]
        ELSE [creds |-> [c2 EXCEPT !.ids = (@ \/ resp = "object_ids"),
                                   !.last_updated = IF tok2 # "" THEN now ELSE @],
              raised |-> FALSE]

\* the Set-Cookie capture of _intercept_api_call; whatever it raises is swallowed
capture_set_cookie(cr, x, now) ==
    IF x.set_cookie = "d_xox"
    THEN [cr EXCEPT !.cookies = @ \cup {"d"},
                    !.token = IF @ = "" THEN "xoxd" ELSE @,
                    !.last_updated = now]
    ELSE cr

Handled(x, cr, buf, resolved, how, escaped) ==
    [x |-> x, creds |-> cr, buffer |-> buf, resolved |-> resolved, how |-> how,
     escaped |-> escaped]

\* except (TimeoutError, Error): await route.continue_()
on_playwright_error(x, cr, buf) ==
    IF x.cont = "ok" THEN Handled(x, cr, buf, 1, "continued", "none")
    ELSE Handled(x, cr, buf, 0, "none", "Error")

\* await route.fulfill(response=response)
fulfill(x, cr, buf) ==
    IF x.fulfill = "ok" THEN Handled(x, cr, buf, 1, "fulfilled", "none")
    ELSE on_playwright_error(x, cr, buf)

intercept_api_call(x, cr, buf, now) ==
    IF x.fetch # "ok" THEN on_playwright_error(x, cr, buf)
    ELSE LET c1 == update_from_request(cr, x, "absent", now).creds
             c2 == capture_set_cookie(c1, x, now)
         IN  IF x.body = "unreadable" THEN on_playwright_error(x, c2, buf)
             ELSE IF x.body = "undecodable"
             THEN Handled(x, c2, buf, 0, "none", "UnicodeDecodeError")
             ELSE IF x.body = "non_json" THEN fulfill(x, c2, buf)
             ELSE LET buf2 == Append(buf, [url |-> "/api/", body |-> x.body, timestamp |-> now])
                      u == update_from_request(c2, x, x.body, now)
                  IN  IF u.raised
                      THEN Handled(x, u.creds, buf2, 0, "none", "TypeError")
                      ELSE fulfill(x, u.creds, buf2)

InterceptInit ==
    LET
        EmptyCredentials ==
            [token |-> "", cookies |-> {}, ids |-> FALSE, last_updated |-> 0]
    IN
    /\ route = [n |-> 0]
    /\ credentials \in {EmptyCredentials,
                         [token |-> "xoxc", cookies |-> {"b"}, ids |-> TRUE, last_updated |-> 0]}
    /\ intercepted_data = <<>>
    /\ RestIdle("intercept")

InterceptRequest ==
    LET
        Exchanges ==
            LET
                BodyKinds == {"object", "object_ids", "falsy", "scalar", "list", "string",
                              "non_json", "undecodable", "unreadable"}
            IN
            {Exchange(m, pt, ck, "ok", "none", "object", "ok", "ok") :
                m \in {"GET", "POST"}, pt \in BOOLEAN, ck \in {"none", "b", "d_xox"}}
            \cup {Exchange(m, m = "POST", "b", "ok", "none", b, "ok", "ok") :
                m \in {"GET", "POST"}, b \in BodyKinds}
            \cup {Exchange("POST", TRUE, "b", f, "none", "object", ff, c) :
                f \in {"ok", "pw_error"}, ff \in {"ok", "pw_error"}, c \in {"ok", "pw_error"}}
            \cup {Exchange("GET", FALSE, "none", "ok", sc, "object", "ok", "ok") :
                sc \in {"none", "d_xox", "junk"}}
    IN
    /\ route.n < MaxCalls
    /\ \E x \in Exchanges :
         LET h == intercept_api_call(x, credentials, intercepted_data, route.n + 1)
         IN  /\ route' = [n |-> route.n + 1, x |-> x, resolved |-> h.resolved,
                          how |-> h.how, escaped |-> h.escaped,
                          buffered |-> Len(h.buffer) - Len(intercepted_data)]
             /\ credentials' = h.creds
             /\ intercepted_data' = h.buffer
    /\ Frame("intercept")

InterceptNext == InterceptRequest

SpecIntercept == InterceptInit /\ [][InterceptNext]_vars

-----------------------------------------------------------------------------
(* SpecLogin: ensure_logged_in, applied to what the browser shows.          *)
(*                                                                         *)
(*   has_page, goto   a page exists; page.goto works or raises             *)
(*   url              the page's URL after the first navigation:           *)
(*                    "app_client" (app.slack.com/client/<team id>),       *)
(*                    "workspace" (another slack.com page), "signin" (a    *)
(*                    slack.com page with signin or login in its URL),     *)
(*                    "external" (a page outside slack.com)                *)
(*   login_ui         a login or captcha form is visible                   *)
(*   dom_wait         a workspace DOM selector appears during the wait     *)
(*   url_wait         the page's URL when the wait ends                    *)
(*   client_nav       navigating to the app client lands on it             *)
(*   dom              a workspace DOM selector is present afterwards       *)
(*   buffer           the recorded calls: api is "definitive" (one of      *)
(*                    client.userBoot, client.counts, team.info,           *)
(*                    users.prefs), "signin" (signin., signup., auth.magic,*)
(*                    auth.verify) or "other"; ok is the response's ok;    *)
(*                    keys says it has users, team or channels             *)

Urls == {"app_client", "workspace", "signin", "external"}

Recorded(api, ok, keys) == [api |-> api, ok |-> ok, keys |-> keys]

LoginBuffers ==
    LET
        RecordedKinds ==
            {Recorded("definitive", TRUE, TRUE), Recorded("definitive", TRUE, FALSE),
             Recorded("definitive", FALSE, FALSE), Recorded("signin", TRUE, FALSE),
             Recorded("other", FALSE, FALSE)}
    IN
    UNION {[1..n -> RecordedKinds] : n \in 0..MaxBuffered}

LoginEnv(has_page, goto, url, login_ui, dom_wait, url_wait, client_nav, dom, buffer) ==
    [has_page |-> has_page, goto |-> goto, url |-> url, login_ui |-> login_ui,
     dom_wait |-> dom_wait, url_wait |-> url_wait, client_nav |-> client_nav,
     dom |-> dom, buffer |-> buffer]

_on_app_client(url) == url = "app_client"

\* the buffer half of _is_authenticated: a definitive response with ok and the keys
BufferConfirms(buffer) ==
    \E i \in 1..Len(buffer) :
        buffer[i].api = "definitive" /\ buffer[i].ok /\ buffer[i].keys

_is_authenticated(dom, buffer) == dom \/ BufferConfirms(buffer)

\* page.goto(app_client_url) when the page is not yet on the app client
GotoClient(url, e) ==
    IF ~_on_app_client(url) /\ e.client_nav THEN "app_client" ELSE url

LoginResult(result, via) == [result |-> result, via |-> via]

\* the scan of the buffer in ensure_logged_in, from entry i on
RECURSIVE ScanBuffer(_, _, _)
ScanBuffer(i, url, e) ==
    LET
        \* the last lines of ensure_logged_in: the checks on the current URL
        UrlChecks(at, env) ==
            IF at = "signin" THEN LoginResult(FALSE, "login_page")
            ELSE IF at # "external" /\ Len(env.buffer) > 0 THEN LoginResult(TRUE, "assumed")
            ELSE LoginResult(FALSE, "unverified")
    IN
    IF i > Len(e.buffer) THEN UrlChecks(url, e)
    ELSE LET data == e.buffer[i]
         IN  IF data.api = "definitive" /\ data.ok THEN LoginResult(TRUE, "api")
             ELSE IF data.api = "signin" /\ data.ok
             THEN IF _is_authenticated(e.dom, e.buffer) THEN LoginResult(TRUE, "signin")
                  ELSE ScanBuffer(i + 1, GotoClient(url, e), e)
             ELSE ScanBuffer(i + 1, url, e)

_wait_for_manual_login(e) == _is_authenticated(e.dom_wait, e.buffer)

ensure_logged_in(e) ==
    IF ~e.has_page THEN LoginResult(FALSE, "no_page")
    ELSE IF e.goto # "ok" THEN LoginResult(FALSE, "error")
    ELSE IF _on_app_client(e.url) THEN LoginResult(TRUE, "app_client")
    ELSE LET success == e.login_ui /\ _wait_for_manual_login(e)
             url1 == IF e.login_ui THEN e.url_wait ELSE e.url
             url2 == IF success THEN GotoClient(url1, e) ELSE url1
         IN  IF success /\ (_on_app_client(url2) \/ _is_authenticated(e.dom, e.buffer))
             THEN LoginResult(TRUE, "wait_loop")
             ELSE IF e.dom THEN LoginResult(TRUE, "dom")
             ELSE ScanBuffer(1, url2, e)

\* storage_state is the snapshot file config/slack/storage_state.json: "previous" (as an
\* earlier session left it), or written by this session from ensure_logged_in ("login")
\* or from close ("close")
LoginInit ==
    /\ \E use_storage_state \in BOOLEAN :
          login = [phase |-> "none", use_storage_state |-> use_storage_state,
                   storage_state |-> "previous"]
    /\ RestIdle("login")

EnsureLoggedIn ==
    LET
        LoginEnvs ==
            {LoginEnv(FALSE, "ok", "workspace", FALSE, FALSE, "workspace", FALSE, FALSE, <<>>),
             LoginEnv(TRUE, "pw_error", "workspace", FALSE, FALSE, "workspace", FALSE, FALSE, <<>>)}
            \cup {LoginEnv(TRUE, "ok", u, FALSE, FALSE, u, n, d, b) :
                    u \in Urls, n \in BOOLEAN, d \in BOOLEAN, b \in LoginBuffers}
            \cup {LoginEnv(TRUE, "ok", u, TRUE, dw, uw, n, d, b) :
                    u \in Urls, dw \in BOOLEAN, uw \in Urls, n \in BOOLEAN, d \in BOOLEAN,
                    b \in LoginBuffers}
    IN
    /\ login.phase = "none"
    /\ \E e \in LoginEnvs :
         LET r == ensure_logged_in(e)
             \* every return True but that of the DOM probe is preceded by
             \* _save_storage_state_if_enabled()
             saved == r.result /\ r.via # "dom" /\ login.use_storage_state
         IN  login' = [phase |-> "done", env |-> e, result |-> r.result, via |-> r.via,
                       use_storage_state |-> login.use_storage_state,
                       storage_state |-> IF saved THEN "login" ELSE login.storage_state]
    /\ Frame("login")

\* SlackBrowser.close, reached from the finally block of main whatever
\* ensure_logged_in returned; context.storage_state(path) may fail
Close ==
    /\ login.phase = "done"
    /\ \E save_ok \in BOOLEAN :
          login' = [login EXCEPT
                       !.phase = "closed",
                       !.storage_state =
                           IF login.use_storage_state /\ login.env.has_page /\ save_ok
                           THEN "close" ELSE @]
    /\ Frame("login")

LoginNext == EnsureLoggedIn \/ Close

SpecLogin == LoginInit /\ [][LoginNext]_vars

-----------------------------------------------------------------------------
(* SpecUsers: get_user_list.                                                *)
(*                                                                         *)
(* A dict is a function on the set of its keys.  The environment holds     *)
(*   has_creds   credentials.token and credentials.cookies are both set    *)
(*   boot        the users of the recorded client.userBoot payloads        *)
(*   members     the members the workspace's users.list serves, U1 on its  *)
(*               first page and U2 on its second                           *)
(*   fail        the users.list page whose response is not ok ("none",     *)
(*               "first", "second")                                        *)
(*   rolodex     the id -> name mapping read from rolodex.json             *)

UserFallback(uid) == IF uid = "U1" THEN "User_U1" ELSE "User_U2"

Dicts(V) ==
    LET
        UserIds == {"U1", "U2"}
    IN
    UNION {[K -> V] : K \in SUBSET UserIds}

\* info.get("real_name") or info.get("name") or f"User_{uid[-6:]}"
BootName(uid, info) ==
    IF info.real_name # "" THEN info.real_name
    ELSE IF info.name # "" THEN info.name
    ELSE UserFallback(uid)

\* display_name or real_name or member name or f"User_{uid[-6:]}"
DisplayName(uid, member) ==
    IF member.profile.display_name # "" THEN member.profile.display_name
    ELSE IF member.profile.real_name # "" THEN member.profile.real_name
    ELSE IF member.name # "" THEN member.name
    ELSE UserFallback(uid)

\* 1) the users of the bootstrap payloads
FromBootstrap(env) == [uid \in DOMAIN env.boot |-> BootName(uid, env.boot[uid])]

\* the members of the users.list pages received with ok before the loop breaks
ReceivedMembers(env) ==
    IF ~env.has_creds \/ env.fail = "first" THEN {}
    ELSE IF env.fail = "second" THEN DOMAIN env.members \cap {"U1"}
    ELSE DOMAIN env.members

\* 2) users.list: deleted members and bots are skipped, the others overwrite
FromUserList(users, env) ==
    LET kept == {uid \in ReceivedMembers(env) :
                    ~env.members[uid].deleted /\ ~env.members[uid].is_bot}
    IN  [uid \in DOMAIN users \cup kept |->
            IF uid \in kept THEN DisplayName(uid, env.members[uid]) ELSE users[uid]]

FillFromRolodexOverwrite(users, rolodex_users) ==
    [uid \in DOMAIN users \cup DOMAIN rolodex_users |->
        IF uid \in DOMAIN rolodex_users THEN rolodex_users[uid] ELSE users[uid]]

\* 3) the rolodex fills the ids still missing
FillFromRolodex(users, rolodex_users) ==
    [uid \in DOMAIN users \cup DOMAIN rolodex_users |->
        IF uid \in DOMAIN users THEN users[uid] ELSE rolodex_users[uid]]

\* appends the ids rolodex.json does not hold yet
_save_rolodex(rolodex_file, user_mapping) ==
    [uid \in DOMAIN rolodex_file \cup DOMAIN user_mapping |->
        IF uid \in DOMAIN rolodex_file THEN rolodex_file[uid] ELSE user_mapping[uid]]

get_user_list(env) ==
    LET users == FillFromRolodex(FromUserList(FromBootstrap(env), env), env.rolodex)
    IN  [done |-> TRUE, users |-> users, rolodex |-> _save_rolodex(env.rolodex, users)]

UsersInit ==
    /\ user_in = [phase |-> "none"]
    /\ user_out = [done |-> FALSE]
    /\ RestIdle("user")

GetUserList ==
    LET
        UserEnvs ==
            LET
                RolodexNames == {"Live", "Rolo"}
                Members ==
                    LET
                        \* display_name and real_name of the profile, and the member's name
                        NameChains ==
                            {<<"Live", "Live Real", "live">>, <<"", "Live Real", "live">>,
                             <<"", "", "">>}
                    IN
                    {[deleted |-> d, is_bot |-> b, name |-> n[3],
                      profile |-> [display_name |-> n[1], real_name |-> n[2]]] :
                        d \in BOOLEAN, b \in BOOLEAN, n \in NameChains}
                BootInfos ==
                    {[real_name |-> "Boot Real", name |-> "boot"],
                     [real_name |-> "", name |-> ""]}
            IN
            [has_creds : BOOLEAN, boot : Dicts(BootInfos), members : Dicts(Members),
             fail : {"none", "first", "second"}, rolodex : Dicts(RolodexNames)]
    IN
    /\ user_in.phase = "none"
    /\ \E env \in UserEnvs :
         /\ user_in' = [phase |-> "done", env |-> env]
         /\ user_out' = get_user_list(env)
    /\ Frame("user")

UsersNext == GetUserList

SpecUsers == UsersInit /\ [][UsersNext]_vars

-----------------------------------------------------------------------------
(* SpecChannelMap: channel-resolution runs and the persisted channel map.   *)
(*                                                                         *)
(* A name is written relative to the id it is filed under: "general" and   *)
(* "random" are real names, "ID" is the id itself (in any case),           *)
(* "channel_ID" and "group_ID" are the generic placeholders,               *)
(* "channel_news" is a real name that begins like a placeholder, "" is the *)
(* empty name.  An in-memory name is <<h, body>>: h leading '#' and then   *)
(* the body.  The file maps ids to bodies.                                 *)

ChanIds == {"C1", "C2"}

NameBodies == {"general", "random", "ID", "channel_ID", "group_ID", "channel_news", ""}

ChanDicts(V) == UNION {[K -> V] : K \in SUBSET ChanIds}

\* cname.lstrip("#")
Lstrip(cname) == cname[2]

\* not cname
EmptyName(cname) == cname[1] = 0 /\ cname[2] = ""

\* name_plain.lower().startswith(("channel_", "group_"))
GenericPrefix(body) == body \in {"channel_ID", "group_ID", "channel_news"}

\* _load_channel_map: the entries of the file ({} when it is missing)
_load_channel_map(file) == file

\* get_channel_list, lines 832-834: the persisted entries, as "#name"
Prepopulate(file) ==
    LET kept == {cid \in DOMAIN file : file[cid] # ""}
    IN  [cid \in kept |-> <<1, file[cid]>>]

\* the names found in this run laid over the persisted ones
Merge(channels, found) ==
    [cid \in DOMAIN channels \cup DOMAIN found |->
        IF cid \in DOMAIN found THEN found[cid] ELSE channels[cid]]

\* get_channel_list, lines 1041-1065: conversations.info gives the ids of `resolved`
\* their real name
ResolvePlaceholders(channels, has_creds, resolved) ==
    LET
        \* get_channel_list, lines 1044-1057: the names taken for placeholders
        LooksPlaceholder(cname) ==
            EmptyName(cname) \/ GenericPrefix(Lstrip(cname)) \/ Lstrip(cname) = "ID" \/ Lstrip(cname) = ""
    IN
    [cid \in DOMAIN channels |->
        IF has_creds /\ LooksPlaceholder(channels[cid]) /\ cid \in resolved
        THEN <<1, "general">> ELSE channels[cid]]

\* the entries _save_channel_map accepts from channel_dict
Accepted(channel_dict) ==
    LET
        \* cname.startswith("#")
        StartsWithHash(cname) == cname[1] > 0
    IN
    {cid \in DOMAIN channel_dict :
        /\ ~EmptyName(channel_dict[cid])
        /\ StartsWithHash(channel_dict[cid])
        /\ ~GenericPrefix(Lstrip(channel_dict[cid]))
        /\ Lstrip(channel_dict[cid]) # "ID"}

\* _save_channel_map: [written, content]; content is what the file then holds
_save_channel_map(file, channel_dict) ==
    LET existing == _load_channel_map(file)
        changed == {cid \in Accepted(channel_dict) :
                       cid \notin DOMAIN existing \/ existing[cid] # Lstrip(channel_dict[cid])}
        content == [cid \in DOMAIN existing \cup changed |->
                       IF cid \in changed THEN Lstrip(channel_dict[cid]) ELSE existing[cid]]
    IN  IF changed # {} THEN [written |-> TRUE, content |-> content]
        ELSE [written |-> FALSE, content |-> file]

\* a sequence of runs, of which channel_save keeps what the last one saved, or one run
\* traced in full: the assembled map, the lookups and the returned map
ChannelMapInit ==
    /\ channel_map_file \in ChanDicts(NameBodies)
    /\ channel_save \in {[n |-> 0, trace |-> FALSE], [n |-> MaxSaves - 1, trace |-> TRUE]}
    /\ RestIdle("chan")

\* get_channel_list: one channel-resolution run
GetChannelList ==
    LET
        \* without credentials no lookup is made
        InfoLookups ==
            {[has_creds |-> FALSE, resolved |-> {}]}
            \cup {[has_creds |-> TRUE, resolved |-> r] : r \in SUBSET ChanIds}
        \* "#body", and two names without '#': "@general"-like and ""
        MemNames == {<<1, b>> : b \in NameBodies} \cup {<<0, "general">>, <<0, "">>}
    IN
    /\ channel_save.n < MaxSaves
    /\ \E found \in ChanDicts(MemNames), lookup \in InfoLookups :
         LET assembled == Merge(Prepopulate(channel_map_file), found)
             channels == ResolvePlaceholders(assembled, lookup.has_creds, lookup.resolved)
             saved == _save_channel_map(channel_map_file, channels)
         IN  /\ channel_map_file' = saved.content
             /\ channel_save' =
                   IF channel_save.trace
                   THEN [n |-> channel_save.n + 1, trace |-> TRUE,
                         assembled |-> assembled, lookup |-> lookup,
                         returned |-> channels]
                   ELSE [n |-> channel_save.n + 1, trace |-> FALSE,
                         written |-> saved.written, before |-> channel_map_file,
                         accepted |-> Accepted(channels)]
    /\ Frame("chan")

ChannelMapNext == GetChannelList

SpecChannelMap == ChannelMapInit /\ [][ChannelMapNext]_vars

-----------------------------------------------------------------------------
(* SpecCreds: the credential record and the code that consults it.          *)
(*                                                                         *)
(* cred_in is [token, cookies, last_updated, now]: the record (token "" or *)
(* a token, cookies the set of cookie names held) and time.time() when it  *)
(* is consulted.  Times are in seconds.                                    *)

\* the staleness window of is_valid
StaleAfter == 3600

Times == {0, 1, StaleAfter - 1, StaleAfter, StaleAfter + 1, 2 * StaleAfter}

\* the window left out: token and cookies alone
is_valid_any_age(cr) == cr.token # "" /\ cr.cookies # {}

\* SlackCredentials.is_valid
is_valid(cr) ==
    IF cr.token = "" \/ cr.cookies = {} THEN FALSE
    ELSE cr.now - cr.last_updated < StaleAfter

\* the test that guards every direct call: credentials.token and credentials.cookies
HasTokenAndCookies(cr) == cr.token # "" /\ cr.cookies # {}

\* the places that issue direct calls
DirectOps == {"history", "channels", "users", "lookup"}

CredsInit ==
    LET
        CredRecords ==
            [token : {"", "xoxc"}, cookies : SUBSET {"d"}, last_updated : Times, now : Times]
    IN
    /\ cred_in \in CredRecords
    /\ cred_out = [op |-> "none"]
    /\ RestIdle("cred")

\* credentials.is_valid()
IsValid ==
    /\ cred_out.op = "none"
    /\ cred_out' = [op |-> "is_valid", result |-> is_valid(cred_in)]
    /\ UNCHANGED cred_in /\ Frame("cred")

\* fetch_conversation_history / _fetch_history_via_api_sync: history pagination
HistoryDirect ==
    /\ cred_out.op = "none"
    /\ cred_out' = [op |-> "history", direct_call |-> HasTokenAndCookies(cred_in)]
    /\ UNCHANGED cred_in /\ Frame("cred")

\* get_channel_list: conversations.list enumeration
ChannelsDirect ==
    /\ cred_out.op = "none"
    /\ cred_out' = [op |-> "channels", direct_call |-> HasTokenAndCookies(cred_in)]
    /\ UNCHANGED cred_in /\ Frame("cred")

\* get_user_list: users.list enumeration
UsersDirect ==
    /\ cred_out.op = "none"
    /\ cred_out' = [op |-> "users", direct_call |-> HasTokenAndCookies(cred_in)]
    /\ UNCHANGED cred_in /\ Frame("cred")

\* _api_post_sync: a lookup call
LookupDirect ==
    /\ cred_out.op = "none"
    /\ cred_out' = [op |-> "lookup", direct_call |-> HasTokenAndCookies(cred_in)]
    /\ UNCHANGED cred_in /\ Frame("cred")

CredsNext ==
    \/ IsValid
    \/ HistoryDirect
    \/ ChannelsDirect
    \/ UsersDirect
    \/ LookupDirect

SpecCreds == CredsInit /\ [][CredsNext]_vars

-----------------------------------------------------------------------------
(* SpecFiles: the markdown file of one conversation over several runs.      *)
(*                                                                         *)
(* A name is a sequence of tokens: a word, or one punctuation or blank     *)
(* character.  "C1" and "D1" stand for a channel id and a DM id.  disk maps *)
(* each existing file name (without ".md") to the blocks written to it, a  *)
(* sequence of "header" and "line".  disk_run keeps the conversation, the    *)
(* number of runs and the file the last run wrote (<<>> when it wrote none). *)

People == {"ann", "bob"}

LookedUp == {<<>>, <<"general">>, <<"dev", "_", "ops">>}

\* str.lstrip("#@")
LstripName(s) ==
    LET RECURSIVE Drop(_)
        Drop(t) == IF t # <<>> /\ Head(t) \in {"#", "@"} THEN Drop(Tail(t)) ELSE t
    IN Drop(s)

\* re.sub(r'[<>:"/\\|?*@]', '_', s)
ReplaceInvalid(s) ==
    [i \in 1..Len(s) |->
        IF s[i] \in {"<", ">", ":", "\"", "/", "\\", "|", "?", "*", "@"} THEN "_" ELSE s[i]]

\* re.sub(r'\s+', '_', s) with set = blanks, re.sub(r'_+', '_', s) with set = {"_"}
CollapseRuns(s, set) ==
    LET RECURSIVE Go(_, _)
        Go(t, inRun) ==
            IF t = <<>> THEN <<>>
            ELSE IF Head(t) \in set
                 THEN (IF inRun THEN <<>> ELSE <<"_">>) \o Go(Tail(t), TRUE)
                 ELSE <<Head(t)>> \o Go(Tail(t), FALSE)
    IN Go(s, FALSE)

\* str.strip('_')
StripUnderscores(s) ==
    LET RECURSIVE Front(_)
        Front(t) == IF t # <<>> /\ Head(t) = "_" THEN Front(Tail(t)) ELSE t
        RECURSIVE Back(_)
        Back(t) == IF t # <<>> /\ t[Len(t)] = "_" THEN Back(SubSeq(t, 1, Len(t) - 1)) ELSE t
    IN Back(Front(s))

\* SlackBrowser.conversation_filename; parts is what get_dm_participants returns and
\* authors the names of the message authors other than the exporting user
conversation_filename(channel_id, channel_name, parts, authors) ==
    LET
        \* sorted(set(parts)) joined with "-"
        JoinParts(ps) ==
            IF ps = {"ann"} THEN <<"ann">>
            ELSE IF ps = {"bob"} THEN <<"bob">>
            ELSE <<"ann", "-", "bob">>
    IN
    LET used == IF parts = {} THEN authors ELSE parts
        base ==
            IF channel_id = "D1"
            THEN IF used # {}
                 THEN IF Cardinality(used) = 1
                      THEN <<"dm", "_", "with", "_">> \o JoinParts(used) \o <<"_", channel_id>>
                      ELSE <<"group", "_", "dm", "_">> \o JoinParts(used)
                 ELSE <<"dm", "_", channel_id>>
            ELSE IF LstripName(channel_name) # <<>> THEN LstripName(channel_name)
                 ELSE <<"channel", "_", channel_id>>
    IN StripUnderscores(CollapseRuns(CollapseRuns(ReplaceInvalid(base), {" "}), {"_"}))

\* _create_safe_filename
create_safe_filename(channel_name, channel_id) ==
    LET safe_name == StripUnderscores(CollapseRuns(ReplaceInvalid(LstripName(channel_name)), {"_"}))
    IN IF channel_name # <<>> /\ channel_name # <<channel_id>> /\ safe_name # <<>>
       THEN safe_name
       ELSE <<"channel", "_", channel_id>>

\* "Improve placeholder names when possible": get_channel_name answered looked_up
ImproveName(channel_name, looked_up) ==
    LET
        \* channel_name.startswith("channel_")
        StartsWithChannel(name) ==
            Len(name) >= 2 /\ name[1] = "channel" /\ name[2] = "_"
    IN
    IF StartsWithChannel(channel_name) /\ looked_up # <<>> THEN <<"#">> \o looked_up
    ELSE channel_name

\* the names a run may hold for the conversation once it is resolved: the placeholder
\* of a direct id, or the name in the conversation list
ResolvedNames(channel_id) ==
    LET
        \* names the conversation list or a name lookup gives for the conversation
        ListedNames ==
            {<<"#", "general">>, <<"#", "dev", " ", "ops">>, <<"dev", ":", "ops">>,
             <<"channel", "_", "news">>, <<"#">>}
    IN
    {<<"channel", "_", channel_id>>} \cup ListedNames

\* md_path.open("a" if md_path.exists() else "w") and the writes that follow
WriteBlocks(d, md_path, count) ==
    LET lines == [i \in 1..count |-> "line"]
    IN IF md_path \in DOMAIN d
       THEN [f \in DOMAIN d |-> IF f = md_path THEN d[f] \o lines ELSE d[f]]
       ELSE [f \in DOMAIN d \cup {md_path} |->
                IF f = md_path THEN <<"header">> \o lines ELSE d[f]]

\* old_path.rename(md_path): the old file takes the new name (replacing a file
\* already there), or the rename fails with OSError and nothing moves
RenamePlaceholder(d, old_path, md_path, rename_ok) ==
    IF old_path \in DOMAIN d /\ old_path # md_path /\ rename_ok
    THEN [f \in (DOMAIN d \ {old_path}) \cup {md_path} |->
             IF f = md_path THEN d[old_path] ELSE d[f]]
    ELSE d

FilesInit ==
    LET
        ConvIds == {"C1", "D1"}
    IN
    /\ disk = <<>>
    /\ disk_run \in [n : {0}, conv : ConvIds]
    /\ RestIdle("disk")

\* _export_single_channel from the resolved name on; count is the number of messages
\* newer than the tracker entry
ExportSingleChannelWrite ==
    /\ disk_run.n < MaxWrites
    /\ \E name \in ResolvedNames(disk_run.conv), looked_up \in LookedUp,
          parts \in SUBSET People, authors \in SUBSET People, count \in 0..1 :
          LET channel_name == ImproveName(name, looked_up)
              md_path == conversation_filename(disk_run.conv, channel_name, parts,
                                               IF count = 0 THEN {} ELSE authors)
          IN /\ disk' = IF count = 0 THEN disk ELSE WriteBlocks(disk, md_path, count)
             /\ disk_run' = [n |-> disk_run.n + 1, conv |-> disk_run.conv,
                             md_path |-> IF count = 0 THEN <<>> ELSE md_path]
    /\ Frame("disk")

\* main, single conversation, from the resolved name on; count is the number of
\* messages fetched
MainWrite ==
    /\ disk_run.n < MaxWrites
    /\ \E name \in ResolvedNames(disk_run.conv), looked_up \in LookedUp,
          parts \in SUBSET People, authors \in SUBSET People, count \in 0..1,
          rename_ok \in BOOLEAN :
          LET channel_name == ImproveName(name, looked_up)
              md_path == conversation_filename(disk_run.conv, channel_name, parts,
                                               IF count = 0 THEN {} ELSE authors)
              old_path == create_safe_filename(<<"channel", "_", disk_run.conv>>, disk_run.conv)
          IN /\ disk' = IF count = 0 THEN disk
                        ELSE WriteBlocks(RenamePlaceholder(disk, old_path, md_path, rename_ok),
                                           md_path, count)
             /\ disk_run' = [n |-> disk_run.n + 1, conv |-> disk_run.conv,
                             md_path |-> IF count = 0 THEN <<>> ELSE md_path]
    /\ Frame("disk")

FilesNext ==
    \/ ExportSingleChannelWrite
    \/ MainWrite

SpecFiles == FilesInit /\ [][FilesNext]_vars

-----------------------------------------------------------------------------
(* SpecResolve: resolving a target typed by the operator to a conversation. *)
(*                                                                         *)
(* A name or query is a sequence of characters; <<"C0AAA1111">> stands for *)
(* an input in the format of an id.  conversations is the list discovered  *)
(* at the start of main, in dict order, entry i having id i; later is what *)
(* get_conversations returns when main calls it again.                     *)

ConvNames ==
    {<<"#", "a">>, <<"#", "a", "b">>, <<"#", "A", "b">>, <<"#", "b", "a">>, <<"@", "b">>}
Queries == {<<"a">>, <<"A">>, <<"b">>, <<"a", "b">>, <<"b", "b">>, <<"C0AAA1111">>}

\* str.lower()
Lower(s) == [i \in 1..Len(s) |-> IF s[i] = "A" THEN "a" ELSE s[i]]

\* conv_info.name.lstrip("#@").lower() == channel_input.lower()
ExactMatch(name, channel_input) == Lower(LstripName(name)) = Lower(channel_input)

\* channel_input.lower() in conv_info.name.lower()
PartialMatch(name, channel_input) ==
    \E i \in 1..Len(name) :
        /\ i + Len(channel_input) - 1 <= Len(name)
        /\ SubSeq(Lower(name), i, i + Len(channel_input) - 1) = Lower(channel_input)

\* the first of the entries hits, 0 if there is none ("for ... if ...: break")
FirstMatch(hits) ==
    IF hits = {} THEN 0 ELSE CHOOSE i \in hits : \A j \in hits : i <= j

\* _export_single_channel, "Resolve channel ID & display name"
resolve_batch_target(channel_input, convs) ==
    IF channel_input = <<"C0AAA1111">>          \* _is_valid_slack_id
    THEN [outcome |-> "export", channel_id |-> "given"]
    ELSE LET exact == FirstMatch({i \in 1..Len(convs) : ExactMatch(convs[i], channel_input)})
             partial == FirstMatch({i \in 1..Len(convs) : PartialMatch(convs[i], channel_input)})
         IN IF exact # 0 THEN [outcome |-> "export", channel_id |-> exact]
            ELSE IF partial # 0 THEN [outcome |-> "export", channel_id |-> partial]
            ELSE [outcome |-> "skipped", channel_id |-> 0]

\* main, "Try to find the channel", up to the fetch
resolve_single(channel_input, convs, later) ==
    IF channel_input = <<"C0AAA1111">>          \* startswith C, D or G and longer than 8
    THEN [outcome |-> "export", channel_id |-> "given"]
    ELSE LET exact == FirstMatch({i \in 1..Len(convs) : ExactMatch(convs[i], channel_input)})
             matches == {i \in 1..Len(convs) : PartialMatch(convs[i], channel_input)}
             reloaded == FirstMatch({i \in 1..Len(later) : ExactMatch(later[i], channel_input)})
         IN IF exact # 0 THEN [outcome |-> "export", channel_id |-> exact]
            ELSE IF Cardinality(matches) = 1
            THEN [outcome |-> "export", channel_id |-> CHOOSE i \in matches : TRUE]
            ELSE IF Cardinality(matches) > 1
            THEN [outcome |-> "reported", channel_id |-> 0]
            ELSE IF reloaded # 0 THEN [outcome |-> "export", channel_id |-> reloaded]
            ELSE [outcome |-> "not_found", channel_id |-> 0]

ResolveInit ==
    /\ resolve \in [flow : {"pending"}, query : Queries,
                    conversations : [1..2 -> ConvNames], later : [1..2 -> ConvNames]]
    /\ RestIdle("resolve")

\* main with one target
ResolveSingle ==
    /\ resolve.flow = "pending"
    /\ resolve' = [flow |-> "single", query |-> resolve.query,
                   conversations |-> resolve.conversations,
                   result |-> resolve_single(resolve.query, resolve.conversations,
                                             resolve.later)]
    /\ Frame("resolve")

\* _export_single_channel for one target of a comma-separated batch; main passes it
\* the list it loaded before the loop
ResolveBatchTarget ==
    /\ resolve.flow = "pending"
    /\ resolve' = [flow |-> "batch", query |-> resolve.query,
                   conversations |-> resolve.conversations,
                   result |-> resolve_batch_target(resolve.query, resolve.conversations)]
    /\ Frame("resolve")

ResolveNext ==
    \/ ResolveSingle
    \/ ResolveBatchTarget

SpecResolve == ResolveInit /\ [][ResolveNext]_vars

-----------------------------------------------------------------------------
(* SpecConfig: the workspace configuration at start-up.                     *)
(*                                                                         *)
(* The file is config/slack/workspace.json: absent, or holding a url and a *)
(* team id.  validate_workspace and CONFIG belong to config/slack/         *)
(* workspace.py, which is outside the sources at hand; they are modelled   *)
(* from the specification: any placeholder value is a configuration error, *)
(* and CONFIG carries the values of the file.                              *)

\* _template_json
Template == [exists |-> TRUE, url |-> "https://YOUR_WORKSPACE.slack.com", team_id |-> "TXXXXXXXX"]

\* ensure_workspace_config: the file afterwards
ensure_workspace_config(file) == IF file.exists THEN file ELSE Template

\* validate_workspace: does it raise RuntimeError
validate_workspace(cfg) == cfg.url = Template.url \/ cfg.team_id = Template.team_id

\* the validation left out
load_workspace_settings_unvalidated(file) ==
    LET cfg == ensure_workspace_config(file)
    IN [file |-> cfg, raised |-> FALSE,
        settings |-> [url |-> cfg.url, team_id |-> cfg.team_id]]

\* load_workspace_settings
load_workspace_settings(file) ==
    LET cfg == ensure_workspace_config(file)
    IN IF validate_workspace(cfg)
       THEN [file |-> cfg, raised |-> TRUE]
       ELSE [file |-> cfg, raised |-> FALSE,
             settings |-> [url |-> cfg.url, team_id |-> cfg.team_id]]

ConfigInit ==
    /\ config \in [phase : {"start"},
                   file : {[exists |-> FALSE]}
                          \cup [exists : {TRUE},
                                url : {Template.url, "https://acme.slack.com",
                                       "https://beta.slack.com", "https://corp.slack.com",
                                       "https://delta.slack.com", "https://acme.slack.com/"},
                                team_id : {Template.team_id, "T123456", "T234567",
                                           "T345678", "T456789", "T"}]]
    /\ RestIdle("config")

\* load_workspace_settings called on its own
LoadWorkspaceSettings ==
    /\ config.phase = "start"
    /\ config' = [phase |-> "loaded", before |-> config.file,
                  result |-> load_workspace_settings(config.file)]
    /\ Frame("config")

\* run_main: report and return on RuntimeError, else install check and main, which
\* loads the settings again and starts the browser with them
RunMain ==
    /\ config.phase = "start"
    /\ LET first == load_workspace_settings(config.file)
           second == load_workspace_settings(first.file)
       IN config' = [phase |-> "ran", before |-> config.file, result |-> first,
                     reported |-> first.raised,
                     browser_started |-> ~first.raised /\ ~second.raised]
    /\ Frame("config")

ConfigNext ==
    \/ LoadWorkspaceSettings
    \/ RunMain

SpecConfig == ConfigInit /\ [][ConfigNext]_vars

-----------------------------------------------------------------------------
(* SpecWait: the loop of _wait_for_manual_login, one step per await.        *)
(*                                                                         *)
(* Time is counted in half seconds.  wait.elapsed is time.time() - start,  *)
(* wait.iter_start its value when the current iteration began.  How long   *)
(* an await takes and whether the session is authenticated when it is      *)
(* probed are up to the environment.                                       *)

\* timeout_seconds as ensure_logged_in passes it
ManualLoginTimeout == 600

\* page.wait_for_timeout(1000): a second, or longer under load, or no time at all when
\* it raises TimeoutError or Error at once
PageWaitTicks == {0, 2, 3}

\* _is_authenticated: the DOM probes and the scan of the buffer
ProbeTicks == {0, 1}

\* a sleep that can return at once
NoSleepTicks == {0}

\* asyncio.sleep(0.5): half a second at least
SleepTicks == {1, 2}

WaitInit ==
    /\ wait \in [pc : {"call"}, has_page : BOOLEAN, elapsed : {0}, iter_start : {0}]
    /\ RestIdle("wait")

\* "if not self.page: return False", else start = time.time()
WaitEnter ==
    /\ wait.pc = "call"
    /\ wait' = IF wait.has_page THEN [wait EXCEPT !.pc = "head"]
               ELSE [pc |-> "done", has_page |-> FALSE, elapsed |-> 0, iter_start |-> 0,
                     result |-> FALSE]
    /\ Frame("wait")

\* while (time.time() - start) < timeout_seconds, and the return after the loop
WaitLoopHead ==
    /\ wait.pc = "head"
    /\ wait' = IF wait.elapsed < 2 * ManualLoginTimeout
               THEN [wait EXCEPT !.pc = "page_wait", !.iter_start = wait.elapsed]
               ELSE [pc |-> "done", has_page |-> TRUE, elapsed |-> wait.elapsed,
                     iter_start |-> wait.iter_start, result |-> FALSE]
    /\ Frame("wait")

\* await self.page.wait_for_timeout(1000), errors swallowed
WaitPageTimeout ==
    /\ wait.pc = "page_wait"
    /\ \E d \in PageWaitTicks : wait' = [wait EXCEPT !.pc = "probe", !.elapsed = @ + d]
    /\ Frame("wait")

\* if await self._is_authenticated(): save state and credentials, return True
WaitProbe ==
    /\ wait.pc = "probe"
    /\ \E d \in ProbeTicks, authenticated \in BOOLEAN :
          wait' = IF authenticated
                  THEN [pc |-> "done", has_page |-> TRUE, elapsed |-> wait.elapsed + d,
                        iter_start |-> wait.iter_start, result |-> TRUE]
                  ELSE [wait EXCEPT !.pc = "sleep", !.elapsed = @ + d]
    /\ Frame("wait")

\* await asyncio.sleep(0.5)
WaitSleep ==
    /\ wait.pc = "sleep"
    /\ \E d \in SleepTicks : wait' = [wait EXCEPT !.pc = "head", !.elapsed = @ + d]
    /\ Frame("wait")

WaitNext ==
    \/ WaitEnter
    \/ WaitLoopHead
    \/ WaitPageTimeout
    \/ WaitProbe
    \/ WaitSleep

SpecWait == WaitInit /\ [][WaitNext]_vars

\* the event loop resumes the coroutine whenever the await it is suspended on completes
SpecWaitLive == SpecWait /\ WF_vars(WaitNext)

-----------------------------------------------------------------------------
(* SpecScroll: the scroll loop of the UI fallback of                        *)
(* fetch_conversation_history.                                             *)
(*                                                                         *)
(* intercepted_data is never cleared, so when the loop starts the buffer   *)
(* may already hold `foreign` history messages of another conversation;    *)
(* `own` counts the history messages of the conversation being fetched.    *)
(* The counts of the loop run over every conversations.history entry of    *)
(* the buffer.  `wm` is oldest_ts > 0, `target` that some buffered message *)
(* has ts <= oldest_ts, `old` that the earliest buffered message is more   *)
(* than 30 days old.  `attempt` is the number of attempts completed;       *)
(* `quiet` the number of attempts in a row, up to the last one, whose      *)
(* measured count equalled the count measured by the attempt before        *)
(* (nothing is measured before the first attempt: its baseline is 0).      *)

ScrollInit ==
    /\ \E foreign \in 0..1, wm \in BOOLEAN :
          scroll = [pc |-> "nav", foreign |-> foreign, wm |-> wm]
    /\ RestIdle("scroll")

\* navigation, the 3 s wait for the initial load, and the initial count
ScrollEnter ==
    /\ scroll.pc = "nav"
    /\ \E nav_ok \in BOOLEAN, own \in 0..MaxLoaded, old \in BOOLEAN, target \in BOOLEAN :
          LET initial_message_count == scroll.foreign + own
          IN scroll' =
                IF ~nav_ok
                THEN [pc |-> "done", reason |-> "nav_failed", attempt |-> 0]
                ELSE [pc |-> "loop", foreign |-> scroll.foreign, wm |-> scroll.wm,
                      own_initial |-> own, own |-> own,
                      initial_message_count |-> initial_message_count,
                      max_scroll_attempts |-> IF initial_message_count = 0 THEN 10 ELSE 50,
                      previous_message_count |-> 0, no_new_messages_count |-> 0,
                      old |-> initial_message_count > 0 /\ old,
                      target |-> initial_message_count > 0 /\ scroll.wm /\ target,
                      attempt |-> 0, quiet |-> 0, measured |-> 0, raised |-> FALSE]
    /\ Frame("scroll")

\* one iteration of `for attempt in range(max_scroll_attempts)`
ScrollAttempt ==
    /\ scroll.pc = "loop"
    /\ \E arrive \in 0..(MaxLoaded - scroll.own), older \in BOOLEAN, hit \in BOOLEAN,
          raises \in BOOLEAN :
          LET attempt == scroll.attempt
              current_message_count == scroll.foreign + scroll.own + arrive
              old == scroll.old \/ (arrive > 0 /\ older)
              target == scroll.target \/ (arrive > 0 /\ scroll.wm /\ hit)
              stagnant == current_message_count = scroll.previous_message_count
              no_new_messages_count ==
                  IF stagnant THEN scroll.no_new_messages_count + 1 ELSE 0
              termination_threshold == IF scroll.initial_message_count = 0 THEN 3 ELSE 8
              quiet == IF current_message_count = scroll.measured
                       THEN scroll.quiet + 1 ELSE 0
              seen == [scroll EXCEPT !.own = scroll.own + arrive, !.old = old,
                                     !.target = target, !.quiet = quiet,
                                     !.measured = current_message_count,
                                     !.no_new_messages_count = no_new_messages_count,
                                     !.attempt = attempt + 1]
              Stop(s, reason) == [pc |-> "done", reason |-> reason, attempt |-> s.attempt,
                                  own_initial |-> s.own_initial, quiet |-> s.quiet,
                                  raised |-> s.raised]
              \* the end of the range is the end of the loop
              Continue(s) == IF s.attempt = s.max_scroll_attempts THEN Stop(s, "max") ELSE s
          IN scroll' =
                IF stagnant /\ no_new_messages_count >= termination_threshold
                THEN Stop(seen, "stagnant")
                ELSE IF raises
                THEN Continue([seen EXCEPT !.raised = TRUE])
                ELSE LET kept == [seen EXCEPT
                                     !.previous_message_count = current_message_count]
                     IN IF scroll.wm /\ target
                        THEN Stop(kept, "target")
                        ELSE IF current_message_count > 0 /\ attempt > 15 /\ old
                                /\ attempt > 25
                        THEN Stop(kept, "old")
                        ELSE Continue(kept)
    /\ Frame("scroll")

ScrollNext == ScrollEnter \/ ScrollAttempt

\* weak fairness: the awaits of the loop are timed waits and page operations that return
\* or raise, after which the event loop resumes the coroutine
SpecScrollLive == ScrollInit /\ [][ScrollNext]_vars /\ WF_vars(ScrollNext)

-----------------------------------------------------------------------------
(* SpecScan: get_conversations over buffered listings that may hold         *)
(* malformed entries.                                                      *)
(*                                                                         *)
(* Every listing is given by its well-formed entries and by the kind of    *)
(* one further entry: "none", "no_id" (a dict without id) or "non_dict"    *)
(* (a string, number or null where a dict is expected).                    *)
(*   boot, boot_extra      the users of the client.userBoot payloads       *)
(*   member_extra          the further entry of the users.list page, or    *)
(*                         "no_creds" when no direct call is made          *)
(*   listed, listed_extra  the channels of the buffered channel listings   *)
(*   convs, conv_extra     the entries of the buffered conversation        *)
(*                         listings, in buffer order                       *)
(* A display name is <<prefix, text>>.                                     *)

\* _parse_conversation_data: "none" for None
parse_conversation_data(conv_data, user_mappings, channel_mappings) ==
    LET conv_id == conv_data.id
        name ==
            IF conv_id \in {"D1", "D2"}
            THEN IF conv_data.name # "" THEN <<"", conv_data.name>>
                 ELSE IF conv_data.user \in DOMAIN user_mappings
                 THEN <<"@", user_mappings[conv_data.user]>>
                 ELSE <<"@dm_", conv_id>>
            ELSE IF conv_id \in DOMAIN channel_mappings THEN channel_mappings[conv_id]
            ELSE IF conv_data.name # "" THEN <<"#", conv_data.name>>
            ELSE <<"#channel_", conv_id>>
    IN  IF conv_id = "" THEN "none"
        ELSE [name |-> name, conversation_id |-> conv_id,
              conversation_type |-> IF conv_id \in {"D1", "D2"} THEN "dm" ELSE "channel"]

\* get_conversations; `raised` is the AttributeError that leaves get_user_list
get_conversations(env) ==
    LET \* get_user_list: info.get(...) and member.get(...) are called on every entry
        users_raised == env.boot_extra = "non_dict" \/ env.member_extra = "non_dict"
        users == get_user_list([has_creds |-> env.member_extra # "no_creds",
                                boot |-> env.boot, members |-> <<>>, fail |-> "none",
                                rolodex |-> <<>>]).users
        \* get_channel_list: every entry is tested with isinstance(ch, dict) and
        \* `if ch_id and ch_name`
        channels == [cid \in DOMAIN env.listed |-> <<"#", env.listed[cid]>>]
        \* the loop over the listings: an entry that is no dict is not parsed, one without
        \* id parses to None, and both are passed over (conv_extra adds nothing);
        \* the others are filed by name: conversations[conv_info.name] = conv_info
        parsed == [i \in 1..Len(env.convs) |->
                      parse_conversation_data(env.convs[i], users, channels)]
        names == {parsed[i].name : i \in 1..Len(parsed)}
        conversations ==
            [n \in names |-> parsed[MaxOf({i \in 1..Len(parsed) : parsed[i].name = n})]]
    IN  IF users_raised THEN [raised |-> TRUE]
        ELSE [raised |-> FALSE, users |-> users, channels |-> channels,
              conversations |-> conversations]

ScanInit ==
    /\ scan = [phase |-> "none"]
    /\ RestIdle("scan")

GetConversations ==
    LET ExtraKinds == {"none", "no_id", "non_dict"}
        Alex == [real_name |-> "Alex", name |-> "alex"]
        ConvEntries ==
            {[id |-> id, name |-> n, user |-> ""] :
                id \in {"C1", "C2"}, n \in {"", "general", "random"}}
            \cup {[id |-> id, name |-> "", user |-> u] : id \in {"D1", "D2"}, u \in {"U1", "U2"}}
    IN
    /\ scan.phase = "none"
    /\ \E boot \in {[U1 |-> Alex], [U1 |-> Alex, U2 |-> Alex]},
          boot_extra \in ExtraKinds, member_extra \in ExtraKinds \cup {"no_creds"},
          listed \in {<<>>, [C1 |-> "general"]}, listed_extra \in ExtraKinds,
          convs \in UNION {[1..k -> ConvEntries] : k \in 0..MaxEntries},
          conv_extra \in ExtraKinds :
          LET env == [boot |-> boot, boot_extra |-> boot_extra,
                      member_extra |-> member_extra, listed |-> listed,
                      listed_extra |-> listed_extra, convs |-> convs,
                      conv_extra |-> conv_extra]
          IN scan' = [phase |-> "done", env |-> env, out |-> get_conversations(env)]
    /\ Frame("scan")

SpecScan == ScanInit /\ [][GetConversations]_vars

-----------------------------------------------------------------------------
(* SpecLoop: the direct Web API calls of a resolution flow, the event loop  *)
(* of the browser driver and the credential store they share.              *)
(*                                                                         *)
(* The flow is a coroutine on the event loop.  A call made through         *)
(* asyncio.to_thread runs on a worker thread while the flow awaits it and  *)
(* the loop is free to run the route handler for the requests the page     *)
(* makes; a call made directly runs on the loop and blocks it.  Building   *)
(* the request reads credentials.token and then iterates                   *)
(* credentials.cookies; the route handler writes both, and nothing locks   *)
(* the record.                                                             *)
(*   flow      "idle" (at an await of the page), "awaiting" (a worker      *)
(*             thread), "blocked" (inside a direct call)                   *)
(*   inflight  the calls in flight, as <<site, context>>                   *)
(*   phase     of the call's request: "token", "iter" (over the cookie     *)
(*             map; `size` and `seen` are the iterator's), "sent",         *)
(*             "raised" (RuntimeError: dictionary changed size during      *)
(*             iteration)                                                  *)
(*   pending   the routed requests whose handler has not run yet           *)
(*   torn      the store was written while the request was being built     *)

LoopInit ==
    /\ sched = [flow |-> "idle", inflight |-> {}, phase |-> "none", size |-> 0,
                seen |-> {}, token |-> 1, cookies |-> {"b"}, pending |-> 0,
                calls |-> 0, torn |-> FALSE]
    /\ RestIdle("sched")

\* the page makes a request that the route handler will intercept
PageRequest ==
    /\ sched.flow # "none"
    /\ sched.pending < MaxPending
    /\ sched' = [sched EXCEPT !.pending = @ + 1]
    /\ Frame("sched")

\* the flow reaches one of its direct calls
StartCall ==
    LET \* await asyncio.to_thread(...)
        Offloaded == {"history_pages", "thread_replies", "users_list_page",
                      "dm_participants", "channel_name"}
        \* self._api_post_sync(...) called from the coroutine itself
        OnLoop == {"channel_enumeration", "placeholder_lookup", "empty_channel_lookup"}
    IN
    /\ sched.flow = "idle"
    /\ sched.calls < MaxCalls
    /\ \E site \in Offloaded \cup OnLoop :
          sched' = [sched EXCEPT
                       !.flow = IF site \in Offloaded THEN "awaiting" ELSE "blocked",
                       !.inflight = @ \cup {<<site, IF site \in Offloaded THEN "thread"
                                                                        ELSE "loop">>},
                       !.phase = "token", !.torn = FALSE]
    /\ Frame("sched")

\* _api_post_sync builds its request: the token, then one cookie per step
BuildRequest ==
    /\ sched.phase \in {"token", "iter"}
    /\ \E k \in IF sched.cookies \ sched.seen = {} THEN {"b"}
                ELSE sched.cookies \ sched.seen :
          sched' =
             IF sched.phase = "token"
             THEN [sched EXCEPT !.phase = "iter", !.size = Cardinality(sched.cookies),
                                !.seen = {}]
             ELSE IF Cardinality(sched.cookies) # sched.size
             THEN [sched EXCEPT !.phase = "raised"]
             ELSE IF sched.seen = sched.cookies
             THEN [sched EXCEPT !.phase = "sent"]
             ELSE [sched EXCEPT !.seen = @ \cup {k}]
    /\ Frame("sched")

\* _intercept_api_call runs on the event loop and updates the credentials
RunCallback ==
    /\ sched.flow \in {"idle", "awaiting"}
    /\ sched.pending > 0
    /\ \E w \in {"token", "value"} \cup ({"b", "d", "x"} \ sched.cookies) :
          sched' = [sched EXCEPT
                       !.pending = @ - 1,
                       !.token = IF w = "token" THEN 3 - @ ELSE @,
                       !.cookies = IF w \in {"token", "value"} THEN @ ELSE @ \cup {w},
                       !.torn = @ \/ sched.phase = "iter"]
    /\ Frame("sched")

\* the call returns (or raises) and the flow goes on
FinishCall ==
    /\ sched.phase \in {"sent", "raised"}
    /\ sched' = [sched EXCEPT !.flow = "idle", !.inflight = {}, !.phase = "none",
                              !.calls = @ + 1]
    /\ Frame("sched")

LoopNext == PageRequest \/ StartCall \/ BuildRequest \/ RunCallback \/ FinishCall

SpecLoop == LoopInit /\ [][LoopNext]_vars

-----------------------------------------------------------------------------
(* Claims about fetch_conversation_history (SpecFetch)                      *)

\* C3: the list returned by fetch_conversation_history holds exactly one entry per
\* distinct ts, two ts being the same when they denote the same timestamp value:
\* no two entries of the result have the same float(ts).
C3_OneEntryPerTimestamp ==
    fetch_out.done =>
        \A i, j \in 1..Len(fetch_out.msgs) :
            i # j => Float(fetch_out.msgs[i].ts) # Float(fetch_out.msgs[j].ts)

C17_HarvestOnlyFetchWindow ==
    fetch_out.done /\ fetch_out.path = "ui" =>
        LET buffer == fetch_in.env.buffer
            window == SubSeq(buffer, fetch_in.start + 1, Len(buffer))
            fresh == HarvestAll(window, fetch_in.oldest_ts)
        IN \A i \in 1..Len(fetch_out.msgs) :
              \E j \in 1..Len(fresh) : fresh[j] = fetch_out.msgs[i]

\* C18: when a page of the history pagination fails, with an HTTP failure or with a
\* payload that is not ok, the loop stops without raising and returns the messages of
\* the pages before it.
C18_PaginationKeepsAccumulated ==
    LET env == fetch_in.env
        all == ServerHistory(env.up, [channel |-> fetch_in.channel,
                                      oldest |-> fetch_in.oldest_ts, inclusive |-> FALSE])
        earlier == Concat([k \in 1..(env.failPage - 1) |-> PageOf(all, k)])
    IN fetch_out.done /\ env.has_creds /\ env.failPage \in 1..NumPages(all) =>
           /\ ~fetch_out.api.raised
           /\ fetch_out.api.msgs = SortByTs(earlier)

-----------------------------------------------------------------------------
(* Claims about export runs (SpecExport)                                    *)

Ran == last_run.entry # "none"

SortedByTs(msgs) ==
    \A i \in 1..(Len(msgs) - 1) : Float(msgs[i].ts) <= Float(msgs[i + 1].ts)

\* C1: on every entry path, a run of a conversation that follows a run of the same
\* conversation with no upstream change in between appends no message line to the
\* conversation's markdown file and leaves its tracker watermark unchanged.
C1_SecondRunIdempotent ==
    (Ran /\ last_run.repeat) =>
        /\ Len(md_files[last_run.conv].lines) = last_run.lines_before
        /\ tracker[last_run.conv] = last_run.tracker_before[last_run.conv]

\* C2: the tracker value of a conversation never decreases from one run to the next.
C2_TrackerNeverRegresses ==
    [][\A c \in Convs : tracker'[c] >= tracker[c]]_vars

\* C5: a run writes the tracker only after its markdown write completed with N > 0
\* messages, and then stores exactly the maximum ts of the messages it wrote; with
\* zero messages, or a write that did not complete, the tracker stays as it was.
C5_TrackerUpdateRule ==
    Ran =>
        /\ \A d \in Convs \ {last_run.conv} : tracker[d] = last_run.tracker_before[d]
        /\ last_run.tracker_written =>
              /\ last_run.write = "no"
              /\ last_run.written # <<>>
              /\ \E i \in 1..Len(last_run.written) :
                    tracker[last_run.conv] = Float(last_run.written[i].ts)
              /\ \A i \in 1..Len(last_run.written) :
                    Float(last_run.written[i].ts) <= tracker[last_run.conv]
        /\ ~last_run.tracker_written => tracker = last_run.tracker_before
        /\ (last_run.written = <<>> \/ last_run.write # "no") => ~last_run.tracker_written

\* a run that wrote two messages and then the tracker
C5_Witness ==
    Ran /\ last_run.tracker_written /\ Len(last_run.written) >= 2

\* C6: every export flow calls fetch_conversation_history with oldest_ts equal to the
\* tracker's stored value for the conversation (0 when it has no entry).
C6_FetchFromTracker ==
    Ran => last_run.oldest = last_run.tracker_before[last_run.conv]

\* C7: every exported message sequence is in ascending ts order, ts[i] <= ts[i+1]:
\* the list returned by fetch_conversation_history, the messages a run writes, and
\* the message lines of each conversation's markdown file.
C7_Ordering ==
    /\ Ran => SortedByTs(last_run.fetched) /\ SortedByTs(last_run.written)
    /\ \A c \in Convs :
          \A i \in 1..(Len(md_files[c].lines) - 1) :
              Float(md_files[c].lines[i]) <= Float(md_files[c].lines[i + 1])

\* C26: every message a run writes to the markdown file of conversation X, and counts
\* into X's watermark, is a message of conversation X; a payload intercepted for another
\* conversation is never exported under X.
C26_NoCrossConversation ==
    Ran => \A i \in 1..Len(last_run.written) : last_run.written[i].ch = last_run.conv

\* C27: when an export run advances the watermark of a conversation from w to w', every
\* upstream message of that conversation with w < ts <= w', top-level or thread reply,
\* is then in its markdown file.
C27_NothingSkipped ==
    [][\A c \in Convs :
          runs' = runs + 1 /\ tracker'[c] > tracker[c] =>
              \A v \in upstream[c].top \cup upstream[c].replies :
                  tracker[c] < v /\ v <= tracker'[c] =>
                      \E i \in 1..Len(md_files'[c].lines) : Float(md_files'[c].lines[i]) = v]_vars

-----------------------------------------------------------------------------
(* Claims about the interceptor (SpecIntercept)                             *)

\* C8: whatever the response body is and whichever recording step fails, a routed
\* request whose resolving operations work is resolved exactly once (fulfilled or
\* continued) and no exception escapes the handler.
C8_RequestAlwaysResolved ==
    (route.n > 0 /\ route.x.fulfill = "ok" /\ route.x.cont = "ok") =>
        route.resolved = 1 /\ route.escaped = "none"

\* C23: handling a request that carries no token (none in its POST body, no
\* token-bearing cookie) leaves the record's last_updated unchanged, also when the
\* record already holds a token and also when the response sets cookies.
C23_TouchedOnlyByTokenRequests ==
    [][route'.n = route.n + 1
           /\ ~(route'.x.method = "POST" /\ route'.x.post_token)
           /\ route'.x.cookie # "d_xox"
       => credentials'.last_updated = credentials.last_updated]_vars

-----------------------------------------------------------------------------
(* Claims about the login check (SpecLogin)                                 *)

\* the probes of ensure_logged_in, read off what the browser shows
ProbeConfirmed(e) ==
    \/ _on_app_client(e.url)
    \/ e.login_ui /\ (e.dom_wait \/ _on_app_client(e.url_wait))
    \/ e.client_nav
    \/ e.dom
    \/ BufferConfirms(e.buffer)

\* C9: ensure_logged_in returns success only when one of its probes confirmed the
\* login: the page is the app client, the wait loop saw an authenticated state, a
\* workspace DOM selector is present, or the buffer holds a definitive response with
\* ok and the structural keys.
C9_SuccessOnlyWhenConfirmed ==
    (login.phase = "done" /\ login.result) => ProbeConfirmed(login.env)

\* C30: a session whose login failed leaves the saved storage-state snapshot as it was
\* when the browser is closed; only a session in which ensure_logged_in returned
\* success overwrites it.
C30_SnapshotOnlyAfterLogin ==
    (login.phase = "closed" /\ ~login.result) => login.storage_state = "previous"

-----------------------------------------------------------------------------
(* Claims about get_user_list (SpecUsers)                                   *)

\* the ids served in a users.list response that came back ok
InLiveUserList(env) ==
    {uid \in DOMAIN env.members :
        /\ env.has_creds
        /\ env.fail # "first"
        /\ (uid = "U2" => env.fail # "second")}

\* C10, as stated: every id served in a live users.list response and held by the
\* rolodex under a different name is mapped to the live name, never to the rolodex
\* name.
C10_LiveNameForEveryListedId ==
    user_out.done =>
        \A uid \in InLiveUserList(user_in.env) \cap DOMAIN user_in.env.rolodex :
            LET live == DisplayName(uid, user_in.env.members[uid])
            IN  user_in.env.rolodex[uid] # live =>
                    /\ user_out.users[uid] = live
                    /\ user_out.users[uid] # user_in.env.rolodex[uid]

\* C10, amended: every id served in a live users.list response as a member that is
\* neither deleted nor a bot, and held by the rolodex under a different name, is mapped
\* to the live name and not to the rolodex name; an id of the bootstrap payload that
\* users.list did not supply keeps its bootstrap name; the rolodex supplies the name
\* only of an id that neither source supplied.
C10_LiveNameForActiveMembers ==
    user_out.done =>
        LET env == user_in.env
            active == {uid \in InLiveUserList(env) :
                          ~env.members[uid].deleted /\ ~env.members[uid].is_bot}
        IN  /\ \A uid \in active : user_out.users[uid] = DisplayName(uid, env.members[uid])
            /\ \A uid \in DOMAIN env.boot \ active :
                    user_out.users[uid] = BootName(uid, env.boot[uid])
            /\ \A uid \in DOMAIN env.rolodex \ (active \cup DOMAIN env.boot) :
                    user_out.users[uid] = env.rolodex[uid]
            /\ DOMAIN user_out.users = active \cup DOMAIN env.boot \cup DOMAIN env.rolodex

C10_Witness ==
    /\ user_out.done
    /\ \E uid \in InLiveUserList(user_in.env) \cap DOMAIN user_in.env.rolodex :
         /\ ~user_in.env.members[uid].deleted /\ ~user_in.env.members[uid].is_bot
         /\ user_in.env.rolodex[uid] # DisplayName(uid, user_in.env.members[uid])
         /\ user_out.users[uid] = DisplayName(uid, user_in.env.members[uid])

-----------------------------------------------------------------------------
(* Claims about the persisted channel map (SpecChannelMap)                  *)

\* a name that equals its id or is channel_<id> / group_<id>
PlaceholderBody(body) == body \in {"ID", "channel_ID", "group_ID"}

\* C11: whatever the in-memory channel map and the prior content of the file, no
\* content a resolution run writes to the channel-map file holds an entry whose name
\* equals its id or is channel_<id> / group_<id>.
C11_NoPlaceholderWritten ==
    (~channel_save.trace /\ channel_save.n > 0 /\ channel_save.written) =>
        \A cid \in DOMAIN channel_map_file : ~PlaceholderBody(channel_map_file[cid])

\* C22: for every channel whose name in the assembled map is a placeholder, a
\* successful direct lookup puts the real name into the returned map and into the
\* persisted file; after a failed lookup (or none, for want of credentials) the
\* placeholder stays in the returned map and the persisted file holds no placeholder
\* for that channel.
C22_PlaceholderResolution ==
    channel_save.trace /\ channel_save.n = MaxSaves =>
        \A cid \in DOMAIN channel_save.assembled :
            PlaceholderBody(Lstrip(channel_save.assembled[cid])) =>
                IF channel_save.lookup.has_creds /\ cid \in channel_save.lookup.resolved
                THEN /\ channel_save.returned[cid] = <<1, "general">>
                     /\ cid \in DOMAIN channel_map_file
                     /\ channel_map_file[cid] = "general"
                ELSE /\ channel_save.returned[cid] = channel_save.assembled[cid]
                     /\ cid \in DOMAIN channel_map_file =>
                            ~PlaceholderBody(channel_map_file[cid])

-----------------------------------------------------------------------------
(* Claims about the credential record (SpecCreds)                           *)

\* C12: is_valid() returns true only if the token is non-empty, the cookie map is
\* non-empty and now - last_updated < 3600 s; a record last updated more than 3600 s
\* ago is reported invalid even with token and cookies present.
C12_StaleIsInvalid ==
    cred_out.op = "is_valid" =>
        /\ cred_out.result =>
              /\ cred_in.token # ""
              /\ cred_in.cookies # {}
              /\ cred_in.now - cred_in.last_updated < 3600
        /\ cred_in.now - cred_in.last_updated > 3600 => ~cred_out.result

\* a record with token and cookies, older than the window, reported invalid
C12_Witness ==
    /\ cred_out.op = "is_valid" /\ ~cred_out.result
    /\ cred_in.token # "" /\ cred_in.cookies # {}
    /\ cred_in.now - cred_in.last_updated > 3600

\* C19: a direct call (history pagination, channel enumeration, user-list enumeration,
\* lookup) is issued only while the credential record is valid in the is_valid()
\* sense: token and cookies non-empty and last_updated less than one hour old.
C19_DirectOnlyWhenValid ==
    (cred_out.op \in DirectOps /\ cred_out.direct_call) =>
        /\ cred_in.token # ""
        /\ cred_in.cookies # {}
        /\ cred_in.now - cred_in.last_updated < 3600

-----------------------------------------------------------------------------
(* Claims about the markdown files (SpecFiles)                              *)

\* C13: over any sequence of export runs of one conversation there is never more than
\* one file for it, and that file holds exactly one header block, at its start,
\* followed only by message lines.
C13_OneFileOneHeader ==
    /\ Cardinality(DOMAIN disk) <= 1
    /\ \A f \in DOMAIN disk :
          /\ disk[f][1] = "header"
          /\ \A i \in 2..Len(disk[f]) : disk[f][i] = "line"

-----------------------------------------------------------------------------
(* Claims about target resolution (SpecResolve)                             *)

\* C14: whenever a name query, given alone or as one target of a batch, has no exact
\* match and partially matches more than one known conversation, the matches are
\* reported and no conversation is exported for it.
C14_AmbiguousNeverExported ==
    LET q == resolve.query
        convs == resolve.conversations
        ambiguous ==
            /\ \A i \in 1..2 : ~ExactMatch(convs[i], q)
            /\ Cardinality({i \in 1..2 : PartialMatch(convs[i], q)}) > 1
    IN resolve.flow \in {"single", "batch"} /\ ambiguous =>
           resolve.result.outcome = "reported"

-----------------------------------------------------------------------------
(* Claims about the workspace configuration (SpecConfig)                    *)

-----------------------------------------------------------------------------
(* Claims about the manual-login wait (SpecWaitLive)                        *)

\* C16: the manual-login wait always terminates; when no authenticated state was
\* detected in the loop it returns failure once 600 s have elapsed and no later than
\* one iteration after that; and every iteration that goes round the loop has let at
\* least half a second pass.
C16_WaitTerminates ==
    /\ <>(wait.pc = "done")
    /\ [](wait.pc = "done" /\ wait.has_page /\ ~wait.result =>
             /\ wait.elapsed >= 2 * 600
             /\ wait.elapsed < 2 * 600 + 6)
    /\ [][wait.pc = "sleep" /\ wait'.pc = "head" =>
             wait'.elapsed >= wait.iter_start + 1]_vars

\* the wait ran into its timeout and returned failure
C16_Witness ==
    wait.pc = "done" /\ wait.has_page /\ ~wait.result /\ wait.elapsed >= 2 * 600

-----------------------------------------------------------------------------
(* Claims about the scroll loop (SpecScrollLive)                            *)

\* C21: the scroll loop always terminates; it makes at most 50 attempts, 10 when the
\* conversation had zero initial messages; while no attempt has raised it stops after 3
\* attempts in a row that loaded nothing when the conversation had zero initial messages and
\* after 8 otherwise; a raising attempt counts as an attempt.
C21_ScrollStopsByRules ==
    /\ <>(scroll.pc = "done")
    /\ [](scroll.pc \in {"loop", "done"} /\ scroll.attempt > 0 =>
             /\ scroll.attempt <= (IF scroll.own_initial = 0 THEN 10 ELSE 50)
             /\ ~scroll.raised => scroll.quiet <= (IF scroll.own_initial = 0 THEN 3 ELSE 8)
             /\ scroll.pc = "loop" /\ ~scroll.raised =>
                    scroll.quiet < (IF scroll.own_initial = 0 THEN 3 ELSE 8))

-----------------------------------------------------------------------------
(* Claims about the scans of the resolver (SpecScan)                        *)

\* C24: a malformed entry (not a dict, or without id) in any scanned listing is skipped
\* on its own: get_conversations, and get_user_list and get_channel_list within it, do
\* not raise, and every well-formed entry of the listings is still in the result.
C24_BadRecordSkipped ==
    scan.phase = "done" =>
        /\ ~scan.out.raised
        /\ DOMAIN scan.env.boot \subseteq DOMAIN scan.out.users
        /\ DOMAIN scan.env.listed \subseteq DOMAIN scan.out.channels
        /\ \A i \in 1..Len(scan.env.convs) :
              \E n \in DOMAIN scan.out.conversations :
                  scan.out.conversations[n].name =
                      parse_conversation_data(scan.env.convs[i], scan.out.users,
                                              scan.out.channels).name

\* C28: the collection returned by get_conversations holds one entry for every distinct
\* conversation id of the well-formed records of the listings; two ids are never
\* collapsed into one entry, also when they resolve to the same display name.
C28_OneEntryPerId ==
    scan.phase = "done" /\ ~scan.out.raised =>
        LET ids == {scan.env.convs[i].id : i \in 1..Len(scan.env.convs)}
            held == {scan.out.conversations[n].conversation_id :
                        n \in DOMAIN scan.out.conversations}
        IN  /\ held = ids
            /\ Cardinality(DOMAIN scan.out.conversations) = Cardinality(ids)

-----------------------------------------------------------------------------
(* Claims about the direct calls and the event loop (SpecLoop)              *)

\* C25: every direct synchronous HTTP call runs on a context other than the event loop
\* of the browser driver, which stays free for the interception callbacks while the call
\* is in flight, and no two calls of a flow are in flight at once.
C25_CallsOffTheLoop ==
    /\ \A c \in sched.inflight : c[2] = "thread"
    /\ sched.flow # "blocked"
    /\ Cardinality(sched.inflight) <= 1

\* C29: while a thread-offloaded call reads the token and iterates the cookie map, no
\* interception callback writes the store: the iteration never sees the map change and
\* the call sends one consistent snapshot.
C29_NoReadOverlapsWrite ==
    (\E c \in sched.inflight : c[2] = "thread") =>
        ~sched.torn /\ sched.phase # "raised"

====
